---- MODULE Spec2Model ----
(***************************************************************************)
(* Jenkins declarative pipeline -> GitHub Actions converter.               *)
(*                                                                         *)
(* The comment-stripped pipeline text is modelled as a sequence of lexical *)
(* tokens (keywords, braces, stage headers, key/value lines, directive     *)
(* arguments).  The block locator, the stage decomposer and the feature    *)
(* extractors scan that token sequence the way the regular expressions and *)
(* the brace counters of the source scan the characters.  Offsets are the  *)
(* 0-based offsets of the source: text[p] of the source is text[p + 1]     *)
(* here.                                                                   *)
(***************************************************************************)
EXTENDS Integers, Sequences, FiniteSets, TLC

(***************************************************************************)
(* Tokens                                                                  *)
(***************************************************************************)
Tok(k, a, b) == [k |-> k, a |-> a, b |-> b]
Kw(w) == Tok("kw", w, "")
LB == Tok("{", "", "")
RB == Tok("}", "", "")
StageHdr(n) == Tok("stage", n, "")
KV(key, val) == Tok("kv", key, val)
Arg(w, v) == Tok("arg", w, v)
Eff(w) == Tok("eff", w, "")
Boom == Tok("boom", "", "")
BoomLate == Tok("boom", "late", "")

IsKw(t, w) == t.k = "kw" /\ t.a = w
IsLB(t) == t.k = "{"
IsRB(t) == t.k = "}"

\* text[s:e] of the source (0-based, half-open)
Slice(text, s, e) == IF e > s THEN SubSeq(text, s + 1, e) ELSE <<>>

Min(S) == CHOOSE x \in S : \A y \in S : x <= y

HasTok(text, k, a) == \E i \in 1..Len(text) : text[i].k = k /\ text[i].a = a

RECURSIVE Flatten(_)
\* the concatenation of a sequence of sequences
Flatten(ss) == IF ss = <<>> THEN <<>> ELSE Head(ss) \o Flatten(Tail(ss))

(***************************************************************************)
(* utils.find_block                                                        *)
(***************************************************************************)
NotFound == <<-1, -1>>

\* 0-based offsets m such that keyword kw is at m and "{" follows it
KwBraceAt(text, kw) ==
    {m \in 0..(Len(text) - 2) : IsKw(text[m + 1], kw) /\ IsLB(text[m + 2])}

\* a locator that stops at the first closing brace, whatever the depth
ScanBlock_FirstClose(text, start, i, depth) ==
    LET closes == {j \in i..(Len(text) - 1) : IsRB(text[j + 1])}
    IN  IF closes = {} THEN NotFound ELSE <<start + 1, Min(closes)>>

RECURSIVE ScanBlock(_, _, _, _)
\* the while loop of find_block: i is the cursor, depth the counter
ScanBlock(text, start, i, depth) ==
    IF i >= Len(text) THEN NotFound
    ELSE IF IsLB(text[i + 1]) THEN ScanBlock(text, start, i + 1, depth + 1)
    ELSE IF IsRB(text[i + 1])
         THEN IF depth - 1 = 0 THEN <<start + 1, i>>
              ELSE ScanBlock(text, start, i + 1, depth - 1)
    ELSE ScanBlock(text, start, i + 1, depth)

\* a locator that starts from the last match of the keyword
find_block_LastMatch(text, kw) ==
    IF KwBraceAt(text, kw) = {} THEN NotFound
    ELSE LET start == (CHOOSE m \in KwBraceAt(text, kw) :
                          \A n \in KwBraceAt(text, kw) : n <= m) + 1
         IN  ScanBlock(text, start, start, 0)

find_block(text, kw) ==
    IF KwBraceAt(text, kw) = {} THEN NotFound
    ELSE LET start == Min(KwBraceAt(text, kw)) + 1
         IN  ScanBlock(text, start, start, 0)

\* body of the block, or <<>> when there is none
BlockBody(text, kw) ==
    LET sp == find_block(text, kw)
    IN  IF sp[1] = -1 THEN <<>> ELSE Slice(text, sp[1], sp[2])

HasBlock(text, kw) == find_block(text, kw)[1] # -1

(***************************************************************************)
(* jenkins_extractors.split_stages / extract_parallel                      *)
(***************************************************************************)
\* 0-based offsets >= i of a stage header followed by "{"
StageHdrAt(body, i) ==
    {m \in i..(Len(body) - 2) : body[m + 1].k = "stage" /\ IsLB(body[m + 2])}

\* an inner loop that stops at the first closing brace, whatever the depth
ScanStage_FirstClose(body, j, depth) ==
    LET closes == {e \in j..(Len(body) - 1) : IsRB(body[e + 1])}
    IN  IF closes = {} THEN -1 ELSE Min(closes)
RECURSIVE ScanStage_EndCloses(_, _, _)
\* an inner loop that takes the end of the text for the closing brace
ScanStage_EndCloses(body, j, depth) ==
    IF j >= Len(body) THEN Len(body)
    ELSE IF IsLB(body[j + 1]) THEN ScanStage_EndCloses(body, j + 1, depth + 1)
    ELSE IF IsRB(body[j + 1])
         THEN IF depth = 0 THEN j ELSE ScanStage_EndCloses(body, j + 1, depth - 1)
    ELSE ScanStage_EndCloses(body, j + 1, depth)
RECURSIVE ScanStage(_, _, _)
\* inner while loop: the offset of the closing brace, or -1 when j runs off
ScanStage(body, j, depth) ==
    IF j >= Len(body) THEN -1
    ELSE IF IsLB(body[j + 1]) THEN ScanStage(body, j + 1, depth + 1)
    ELSE IF IsRB(body[j + 1])
         THEN IF depth = 0 THEN j ELSE ScanStage(body, j + 1, depth - 1)
    ELSE ScanStage(body, j + 1, depth)

RECURSIVE SplitFrom(_, _, _)
SplitFrom(body, i, res) ==
    IF StageHdrAt(body, i) = {} THEN res
    ELSE LET abs_start == Min(StageHdrAt(body, i))
             block_start == abs_start + 1
             content_start == block_start + 1
             j == ScanStage(body, content_start, 0)
         IN  IF j = -1 THEN res
             ELSE SplitFrom(body, j + 1,
                    Append(res, [name |-> body[abs_start + 1].a,
                                 content |-> Slice(body, content_start, j)]))

split_stages(body) == SplitFrom(body, 0, <<>>)

extract_parallel(stage_body) ==
    IF HasBlock(stage_body, "parallel")
    THEN split_stages(BlockBody(stage_body, "parallel"))
    ELSE <<>>

(***************************************************************************)
(* utils.sanitize_name / gha_job_id                                        *)
(* A stage name is a string of the pipeline text; NameText gives its       *)
(* characters.  Job ids and action directory names are character           *)
(* sequences.                                                              *)
(***************************************************************************)
NameText ==
    [n \in {"A", "a!", "B", "C", "D", "G", "S1", "S2", "S3", "S4",
            "Build", "Deploy", "Test", "release", "Publish", "Docs", "RELEASE", "Ship"} |->
        CASE n = "A" -> <<"A">>
          [] n = "a!" -> <<"a", "!">>
          [] n = "B" -> <<"B">>
          [] n = "C" -> <<"C">>
          [] n = "D" -> <<"D">>
          [] n = "G" -> <<"G">>
          [] n = "S1" -> <<"S", "1">>
          [] n = "S2" -> <<"S", "2">>
          [] n = "S3" -> <<"S", "3">>
          [] n = "S4" -> <<"S", "4">>
          [] n = "Build" -> <<"B", "u", "i", "l", "d">>
          [] n = "Deploy" -> <<"D", "e", "p", "l", "o", "y">>
          [] n = "Test" -> <<"T", "e", "s", "t">>
          [] n = "release" -> <<"r", "e", "l", "e", "a", "s", "e">>
          [] n = "Publish" -> <<"P", "u", "b", "l", "i", "s", "h">>
          [] n = "Docs" -> <<"D", "o", "c", "s">>
          [] n = "RELEASE" -> <<"R", "E", "L", "E", "A", "S", "E">>
          [] n = "Ship" -> <<"S", "h", "i", "p">>]

LowerCaseOf ==
    [c \in {"A", "B", "C", "D", "E", "G", "H", "I", "K", "L", "O", "P", "R", "S", "T", "U",
            "Y"} |->
        CASE c = "A" -> "a" [] c = "B" -> "b" [] c = "C" -> "c" [] c = "D" -> "d"
          [] c = "E" -> "e" [] c = "G" -> "g" [] c = "H" -> "h" [] c = "I" -> "i"
          [] c = "K" -> "k" [] c = "L" -> "l"
          [] c = "O" -> "o" [] c = "P" -> "p" [] c = "R" -> "r"
          [] c = "S" -> "s" [] c = "T" -> "t" [] c = "U" -> "u" [] c = "Y" -> "y"]

\* str.lower() on one character
LowerChar(c) == IF c \in DOMAIN LowerCaseOf THEN LowerCaseOf[c] ELSE c

\* the character class [a-zA-Z0-9\-_]
NameCharOk(c) ==
    \/ c \in DOMAIN LowerCaseOf
    \/ c \in {LowerCaseOf[u] : u \in DOMAIN LowerCaseOf}
    \/ c \in {"1", "2", "3", "4", "-", "_"}

\* re.sub(r'[^a-zA-Z0-9\-_]', '-', name)
HyphenateChar(c) == IF NameCharOk(c) THEN c ELSE "-"
Hyphenate(s) == [i \in 1..Len(s) |-> HyphenateChar(s[i])]

\* str.lower()
Lower(s) == [i \in 1..Len(s) |-> LowerChar(s[i])]

\* str.replace of one character
Replace(s, from, to) == [i \in 1..Len(s) |-> IF s[i] = from THEN to ELSE s[i]]

\* sub in s, for strings as character sequences
Contains(s, sub) ==
    \E i \in 0..(Len(s) - Len(sub)) : SubSeq(s, i + 1, i + Len(sub)) = sub

RECURSIVE CollapseHyphens(_)
\* re.sub(r'-+', '-', s)
CollapseHyphens(s) ==
    IF Len(s) <= 1 THEN s
    ELSE IF s[1] = "-" /\ s[2] = "-" THEN CollapseHyphens(Tail(s))
    ELSE <<s[1]>> \o CollapseHyphens(Tail(s))

RECURSIVE StripLeft(_)
StripLeft(s) == IF s # <<>> /\ s[1] = "-" THEN StripLeft(Tail(s)) ELSE s

RECURSIVE StripRight(_)
StripRight(s) ==
    IF s # <<>> /\ s[Len(s)] = "-" THEN StripRight(SubSeq(s, 1, Len(s) - 1)) ELSE s

\* s.strip('-')
StripHyphens(s) == StripRight(StripLeft(s))

\* sanitize_name on the characters of a name
sanitize_chars(cs) ==
    Lower(StripHyphens(CollapseHyphens(Hyphenate(cs))))

sanitize_name(name) == sanitize_chars(NameText[name])

gha_job_id(stage_name) == sanitize_name(stage_name)

\* sanitize_name(stage_name.lower()), the directory of a stage's action
action_dir_name(stage_name) == sanitize_chars(Lower(NameText[stage_name]))

(***************************************************************************)
(* agent_mapper.map_label_to_runs_on                                       *)
(* runs-on is a sequence of strings: one element for a plain runner name,  *)
(* <<"self-hosted", label>> for the self-hosted fallback.                  *)
(***************************************************************************)
\* label.strip().lower() for the labels of the model
NormalLabel(label) ==
    CASE label = "Linux" -> "linux"
      [] label = "Windows" -> "windows"
      [] OTHER -> label

\* "docker" in normalized, for the labels of the model
LabelNamesDocker(normalized) == normalized \in {"docker", "docker-builder"}

map_label_to_runs_on(label) ==
    LET normalized == NormalLabel(label)
    IN  CASE normalized \in {"ubuntu", "ubuntu-latest", "linux"} -> <<"ubuntu-latest">>
          [] normalized \in {"ubuntu-20.04", "ubuntu-2004"} -> <<"ubuntu-20.04">>
          [] normalized \in {"ubuntu-22.04", "ubuntu-2204"} -> <<"ubuntu-22.04">>
          [] normalized \in {"windows", "windows-latest", "win"} -> <<"windows-latest">>
          [] normalized \in {"windows-2019", "win2019"} -> <<"windows-2019">>
          [] normalized \in {"windows-2022", "win2022"} -> <<"windows-2022">>
          [] normalized \in {"mac", "macos", "macos-latest", "darwin"} -> <<"macos-latest">>
          [] normalized \in {"macos-11", "macos11"} -> <<"macos-11">>
          [] normalized \in {"macos-12", "macos12"} -> <<"macos-12">>
          [] LabelNamesDocker(normalized) -> <<"ubuntu-latest">>
          [] OTHER -> <<"self-hosted", label>>

(***************************************************************************)
(* jenkins_extractors: agents                                              *)
(***************************************************************************)
NoAgent == [type |-> "none", label |-> "", image |-> "", args |-> ""]

ArgAt(text, w) == {i \in 1..Len(text) : text[i].k = "arg" /\ text[i].a = w}

\* group(1) of the first match of  w\s+['"]([^'"]+)['"] , "" when no match
FirstArg(text, w) == IF ArgAt(text, w) = {} THEN "" ELSE text[Min(ArgAt(text, w))].b

\* the body of extract_global_agent / extract_stage_agent after find_block
AgentOfBody(agent_body) ==
    LET node_body == BlockBody(agent_body, "node")
        docker_body == BlockBody(agent_body, "docker")
    IN  IF HasTok(agent_body, "kw", "any") THEN [NoAgent EXCEPT !.type = "any"]
        ELSE IF HasBlock(agent_body, "node") /\ FirstArg(node_body, "label") # ""
             THEN [NoAgent EXCEPT !.type = "label", !.label = FirstArg(node_body, "label")]
        ELSE IF FirstArg(agent_body, "label") # ""
             THEN [NoAgent EXCEPT !.type = "label", !.label = FirstArg(agent_body, "label")]
        ELSE IF HasBlock(agent_body, "docker") /\ FirstArg(docker_body, "image") # ""
             THEN [NoAgent EXCEPT !.type = "docker",
                                  !.image = FirstArg(docker_body, "image"),
                                  !.args = FirstArg(docker_body, "args")]
        ELSE NoAgent

extract_global_agent(pipeline_body) ==
    IF ~HasBlock(pipeline_body, "agent") THEN NoAgent
    ELSE AgentOfBody(BlockBody(pipeline_body, "agent"))

extract_stage_agent(stage_body) ==
    IF ~HasBlock(stage_body, "agent") THEN NoAgent
    ELSE AgentOfBody(BlockBody(stage_body, "agent"))

(***************************************************************************)
(* jenkins_extractors: environment                                         *)
(* An environment is a function from keys to values; the empty function is *)
(* the empty dict.                                                         *)
(***************************************************************************)
EmptyEnv == [k \in {} |-> ""]

EnvPut(env, key, val) ==
    [k \in (DOMAIN env) \cup {key} |-> IF k = key THEN val ELSE env[k]]

RECURSIVE EnvFold(_, _, _)
EnvFold(env_body, i, env) ==
    IF i > Len(env_body) THEN env
    ELSE IF env_body[i].k = "kv"
         THEN EnvFold(env_body, i + 1, EnvPut(env, env_body[i].a, env_body[i].b))
    ELSE EnvFold(env_body, i + 1, env)

extract_env_kv(env_body) == EnvFold(env_body, 1, EmptyEnv)

extract_stage_environment(stage_body) ==
    IF ~HasBlock(stage_body, "environment") THEN EmptyEnv
    ELSE extract_env_kv(BlockBody(stage_body, "environment"))

(***************************************************************************)
(* jenkins_extractors: post blocks                                         *)
(* The data of one lifecycle condition is the set of keys of the source's  *)
(* dict plus its command list; a post set maps the conditions that have    *)
(* data to it.                                                             *)
(***************************************************************************)
PostKinds == <<"always", "success", "failure", "cleanup", "unstable", "aborted">>

RECURSIVE CmdsOf(_, _, _)
\* the commands of token kind k in body, in source order
CmdsOf(body, k, i) ==
    IF i > Len(body) THEN <<>>
    ELSE IF body[i].k = k
         THEN <<[kind |-> k, text |-> body[i].a]>> \o CmdsOf(body, k, i + 1)
    ELSE CmdsOf(body, k, i + 1)

\* _collect(kind) inside extract_post_body
CollectPost(post_body, kind) ==
    LET kbody == BlockBody(post_body, kind)
        cmds == CmdsOf(kbody, "sh", 1) \o CmdsOf(kbody, "echo", 1)
        keys == {"archive" : x \in IF HasTok(kbody, "eff", "archiveArtifacts") THEN {1} ELSE {}}
                \cup {"junit" : x \in IF HasTok(kbody, "eff", "junit") THEN {1} ELSE {}}
                \cup {"publishHTML" : x \in IF HasTok(kbody, "eff", "publishHTML") THEN {1} ELSE {}}
                \cup {"mail" : x \in IF HasTok(kbody, "eff", "mail") THEN {1} ELSE {}}
                \cup {"emailext" : x \in IF ~HasTok(kbody, "eff", "mail")
                                            /\ HasTok(kbody, "eff", "emailext") THEN {1} ELSE {}}
                \cup {"slack" : x \in IF HasTok(kbody, "eff", "slackSend") THEN {1} ELSE {}}
                \cup {"deleteDir" : x \in IF HasTok(kbody, "eff", "deleteDir") THEN {1} ELSE {}}
                \cup {"cleanWs" : x \in IF HasTok(kbody, "eff", "cleanWs") THEN {1} ELSE {}}
                \cup {"commands" : x \in IF cmds # <<>> THEN {1} ELSE {}}
                \cup {"coverage" : x \in IF HasTok(kbody, "eff", "publishCoverage")
                                            THEN {1} ELSE {}}
                \cup {"script_block" : x \in IF \E i \in 1..Len(kbody) : kbody[i].k = "script"
                                                THEN {1} ELSE {}}
    IN  IF ~HasBlock(post_body, kind) THEN [keys |-> {}, commands |-> <<>>]
        ELSE [keys |-> keys, commands |-> cmds]

EmptyPost == [k \in {} |-> [keys |-> {}, commands |-> <<>>]]

extract_post_body(body) ==
    IF ~HasBlock(body, "post") THEN EmptyPost
    ELSE LET post_body == BlockBody(body, "post")
             kinds == {PostKinds[i] : i \in 1..Len(PostKinds)}
         IN  [k \in {kk \in kinds : CollectPost(post_body, kk).keys # {}} |->
                 CollectPost(post_body, k)]

extract_stage_post(stage_body) == extract_post_body(stage_body)

extract_pipeline_post(pipeline_body) == extract_post_body(pipeline_body)

(***************************************************************************)
(* jenkins_extractors.extract_when_conditions, converter.create_when_condition *)
(***************************************************************************)
TokAt(text, k) == {i \in 1..Len(text) : text[i].k = k}

NoWhen == [keys |-> {}, branch |-> "", expression |-> "", params |-> "",
           env_name |-> "", env_value |-> ""]

extract_when_conditions(stage_body) ==
    IF ~HasBlock(stage_body, "when") THEN NoWhen
    ELSE LET when_body == BlockBody(stage_body, "when")
             ret == TokAt(when_body, "return")
             envc == TokAt(when_body, "envcond")
         IN  [keys |-> (IF FirstArg(when_body, "branch") # "" THEN {"branch"} ELSE {})
                       \cup (IF ret # {} THEN {"expression"} ELSE {})
                       \cup (IF envc # {} THEN {"environment"} ELSE {})
                       \cup (IF HasTok(when_body, "kw", "anyOf") THEN {"anyOf", "complex"} ELSE {})
                       \cup (IF HasTok(when_body, "kw", "allOf") THEN {"allOf", "complex"} ELSE {})
                       \cup (IF HasTok(when_body, "kw", "changeRequest")
                             THEN {"changeRequest"} ELSE {})
                       \cup (IF HasTok(when_body, "kw", "buildingTag")
                             THEN {"buildingTag"} ELSE {}),
              branch |-> FirstArg(when_body, "branch"),
              expression |-> IF ret = {} THEN "" ELSE when_body[Min(ret)].a,
              params |-> IF ret = {} THEN "" ELSE when_body[Min(ret)].b,
              env_name |-> IF envc = {} THEN "" ELSE when_body[Min(envc)].a,
              env_value |-> IF envc = {} THEN "" ELSE when_body[Min(envc)].b]

Cond(c, x, y) == [c |-> c, x |-> x, y |-> y]

\* the list `conditions`, joined by " && " in the source; <<>> is None
create_when_condition(w) ==
    (IF "branch" \in w.keys
     THEN IF w.branch \in {"master", "main"}
          THEN <<Cond("ref_main_or_master", "", "")>>
          ELSE <<Cond("ref_eq", w.branch, "")>>
     ELSE <<>>)
    \o (IF "expression" \in w.keys
        THEN IF w.params = "params"
             THEN <<Cond("dispatch_and_inputs", w.expression, "")>>
             ELSE <<Cond("true_manual", w.expression, "")>>
        ELSE <<>>)
    \o (IF "environment" \in w.keys
        THEN IF w.env_value # ""
             THEN <<Cond("env_eq", w.env_name, w.env_value)>>
             ELSE <<Cond("env_nonempty", w.env_name, "")>>
        ELSE <<>>)
    \o (IF "changeRequest" \in w.keys THEN <<Cond("pull_request", "", "")>> ELSE <<>>)
    \o (IF "buildingTag" \in w.keys THEN <<Cond("tag", "", "")>> ELSE <<>>)

\* re.sub(r'params\.(\w+)', r'inputs.\1', expr), as the operands and operators
\* of the rewritten expression
param_expr ==
    [e \in {"params.DEPLOY", "params.A || params.B"} |->
        CASE e = "params.DEPLOY" -> <<"inputs.DEPLOY">>
          [] e = "params.A || params.B" -> <<"inputs.A", "||", "inputs.B">>]

\* the text appended to `conditions` for one entry, as operands and operators
ConditionText(c) ==
    CASE c.c = "ref_main_or_master" ->
            <<"github.ref == 'refs/heads/main'", "||", "github.ref == 'refs/heads/master'">>
      [] c.c = "ref_eq" -> <<"github.ref == 'refs/heads/" \o c.x \o "'">>
      [] c.c = "dispatch_and_inputs" ->
            <<"github.event_name == 'workflow_dispatch'", "&&">> \o param_expr[c.x]
      [] c.c = "true_manual" -> <<"true  # MANUAL CONVERSION REQUIRED: " \o c.x>>
      [] c.c = "env_eq" -> <<"env." \o c.x \o " == '" \o c.y \o "'">>
      [] c.c = "env_nonempty" -> <<"env." \o c.x \o " != ''">>
      [] c.c = "pull_request" -> <<"github.event_name == 'pull_request'">>
      [] c.c = "tag" -> <<"startsWith(github.ref, 'refs/tags/')">>

RECURSIVE JoinAnd(_)
\* " && ".join(conditions)
JoinAnd(conditions) ==
    IF conditions = <<>> THEN <<>>
    ELSE IF Len(conditions) = 1 THEN ConditionText(conditions[1])
    ELSE ConditionText(conditions[1]) \o <<"&&">> \o JoinAnd(Tail(conditions))

(***************************************************************************)
(* converter.convert_jenkins_to_gha: data                                  *)
(***************************************************************************)
StageTimeout == 60
FallbackTimeout == 30

UbuntuLatest == <<"ubuntu-latest">>
NoContainer == [image |-> "", options |-> ""]

NoNeeds == [kind |-> "none", ids |-> <<>>]
NeedsStr(id) == [kind |-> "str", ids |-> <<id>>]
NeedsList(ids) == [kind |-> "list", ids |-> ids]

\* n numbers the steps named "... {i+1}"; with holds the keys of the with block;
\* inputs holds the names of the `${{ inputs.<name> }}` the step is written with
Step(kind, name, ref, cond) ==
    [kind |-> kind, name |-> name, ref |-> ref, cond |-> cond, n |-> 0, with |-> <<>>,
     timeout |-> 0, inputs |-> <<>>]
Numbered(step, i) == [step EXCEPT !.n = i]
Referencing(step, names) == [step EXCEPT !.inputs = names]
CheckoutStep == Step("uses", "", <<"actions/checkout@v4">>, "")
ManualStep == Step("run", "Manual Conversion Required", <<>>, "")

\* a job without a concurrency entry
NoConcurrency == [group |-> <<>>, cancel_in_progress |-> FALSE]

\* a job definition; "", <<>>, 0 and the empty function stand for an absent key
EmptyJob == [name |-> "", runs_on |-> <<>>, container |-> NoContainer,
             has_env |-> FALSE, env |-> EmptyEnv,
             if_cond |-> <<>>, needs |-> NoNeeds, timeout |-> 0, concurrency |-> NoConcurrency,
             continue_on_error |-> FALSE, environment |-> <<>>, steps |-> <<>>]

PipelinePostId == <<"pipeline-post">>

\* gha["jobs"] is an insertion-ordered dict: a sequence of [id, def] entries
JobKeys(jobs) == [i \in 1..Len(jobs) |-> jobs[i].id]
JobIdSet(jobs) == {jobs[i].id : i \in 1..Len(jobs)}
HasJob(jobs, id) == id \in JobIdSet(jobs)
JobOf(jobs, id) == jobs[CHOOSE i \in 1..Len(jobs) : jobs[i].id = id].def

\* gha["jobs"][job_id] = job_def
DictSet(jobs, id, def) ==
    IF HasJob(jobs, id)
    THEN [i \in 1..Len(jobs) |-> IF jobs[i].id = id THEN [id |-> id, def |-> def] ELSE jobs[i]]
    ELSE Append(jobs, [id |-> id, def |-> def])

\* default_runs_on, default_container from the global agent
DefaultRunsOn(global_agent) ==
    IF global_agent.type = "label" THEN map_label_to_runs_on(global_agent.label)
    ELSE UbuntuLatest

DefaultContainer(global_agent) ==
    IF global_agent.type = "docker"
    THEN [image |-> global_agent.image, options |-> global_agent.args]
    ELSE NoContainer

\* a filter that compares keys only and drops overriding values
compute_job_env_KeysOnly(stage_env, genv) ==
    [k \in {kk \in DOMAIN stage_env : kk \notin DOMAIN genv} |-> stage_env[k]]

compute_job_env(stage_env, genv) ==
    IF DOMAIN stage_env = {} THEN EmptyEnv
    ELSE IF DOMAIN genv = {} THEN stage_env
    ELSE [k \in {kk \in DOMAIN stage_env : kk \notin DOMAIN genv \/ genv[kk] # stage_env[kk]} |->
             stage_env[k]]

apply_agent_to_job(job_def, stage_agent, d_runs_on, d_container) ==
    CASE stage_agent.type = "none" ->
            [job_def EXCEPT !.runs_on = d_runs_on,
                            !.container = IF d_container # NoContainer
                                          THEN d_container ELSE job_def.container]
      [] stage_agent.type = "any" -> [job_def EXCEPT !.runs_on = UbuntuLatest]
      [] stage_agent.type = "label" ->
            [job_def EXCEPT !.runs_on = map_label_to_runs_on(stage_agent.label)]
      [] stage_agent.type = "docker" ->
            [job_def EXCEPT !.runs_on = UbuntuLatest,
                            !.container = [image |-> stage_agent.image,
                                           options |-> stage_agent.args]]

\* job_def["concurrency"]: the group, after its fixed prefix "deployment-", and
\* cancel-in-progress
DeploymentGroup(stage_name) ==
    [group |-> Replace(Lower(NameText[stage_name]), " ", "-"), cancel_in_progress |-> FALSE]

\* any(keyword in stage_name.lower() for keyword in ["deploy", "release", "publish"])
NameHasDeployKeyword(stage_name) ==
    \E keyword \in {<<"d", "e", "p", "l", "o", "y">>, <<"r", "e", "l", "e", "a", "s", "e">>,
                     <<"p", "u", "b", "l", "i", "s", "h">>} :
        Contains(Lower(NameText[stage_name]), keyword)

\* a statement of the try block raises on this stage body: an extractor, before
\* the stage is recorded in stages_info (lines 298-310, 351-360), or the job
\* construction after it (lines 326-343, 374-402)
RaisesLate(stage_body) == HasTok(stage_body, "boom", "late")
Raises(stage_body) == HasTok(stage_body, "boom", "") \/ RaisesLate(stage_body)

\* an upstream that looks at the last parallel group only
Upstream_LastOnly(prev, last) ==
    IF last # <<>> THEN NeedsStr(last[Len(last)]) ELSE NoNeeds

\* upstream = prev_job_id or (last_job_ids[-1] if last_job_ids else None)
Upstream(prev, last) ==
    IF prev # <<>> THEN NeedsStr(prev)
    ELSE IF last # <<>> THEN NeedsStr(last[Len(last)])
    ELSE NoNeeds

\* sequential needs that join a parallel group but never chain
SequentialNeeds_Unchained(prev, last) ==
    IF last # <<>> THEN NeedsList(last) ELSE NoNeeds

\* the needs of a sequential or fallback job
SequentialNeeds(prev, last) ==
    IF last # <<>> THEN NeedsList(last)
    ELSE IF prev # <<>> THEN NeedsStr(prev)
    ELSE NoNeeds

StageInfo(name, body, env, agent, post, child, err) ==
    [name |-> name, body |-> body, env |-> env, agent |-> agent, post |-> post,
     is_parallel_child |-> child, conversion_error |-> err]

\* the job definition of a parallel member (lines 326-341)
ParallelJobDef(sub, upstream, genv, d_runs_on, d_container) ==
    LET job_env == compute_job_env(extract_stage_environment(sub.content), genv)
        if_cond == create_when_condition(extract_when_conditions(sub.content))
        j0 == apply_agent_to_job(EmptyJob, extract_stage_agent(sub.content),
                                 d_runs_on, d_container)
    IN  [j0 EXCEPT !.has_env = (DOMAIN job_env # {}), !.env = job_env,
                   !.if_cond = if_cond, !.needs = upstream,
                   !.timeout = StageTimeout, !.steps = <<CheckoutStep>>]

\* the job definition of a sequential stage (lines 374-400)
SequentialJobDef(stage, prev, last, genv, d_runs_on, d_container) ==
    LET job_env == compute_job_env(extract_stage_environment(stage.content), genv)
        if_cond == create_when_condition(extract_when_conditions(stage.content))
        j0 == apply_agent_to_job(EmptyJob, extract_stage_agent(stage.content),
                                 d_runs_on, d_container)
    IN  [j0 EXCEPT !.has_env = (DOMAIN job_env # {}), !.env = job_env,
                   !.if_cond = if_cond,
                   !.needs = SequentialNeeds(prev, last),
                   !.timeout = StageTimeout,
                   !.concurrency = IF NameHasDeployKeyword(stage.name)
                                   THEN DeploymentGroup(stage.name) ELSE @,
                   !.steps = <<CheckoutStep>>]

\* the job definition of the except branch (lines 409-427)
FallbackJobDef(prev, last) ==
    [EmptyJob EXCEPT !.runs_on = UbuntuLatest, !.timeout = FallbackTimeout,
                     !.steps = <<CheckoutStep, ManualStep>>,
                     !.needs = SequentialNeeds(prev, last)]

RECURSIVE ParallelLoop_SkipFailed(_, _, _, _, _, _, _)
\* a loop that goes on after a member that raises, with its id already recorded
ParallelLoop_SkipFailed(subs, k, acc, upstream, genv, d_runs_on, d_container) ==
    IF k > Len(subs) THEN acc
    ELSE ParallelLoop_SkipFailed(subs, k + 1,
            [jobs |-> IF Raises(subs[k].content) THEN acc.jobs
                      ELSE DictSet(acc.jobs, gha_job_id(subs[k].name),
                                   ParallelJobDef(subs[k], upstream, genv, d_runs_on,
                                                  d_container)),
             info |-> Append(acc.info,
                             StageInfo(subs[k].name, subs[k].content,
                                       extract_stage_environment(subs[k].content),
                                       extract_stage_agent(subs[k].content),
                                       extract_stage_post(subs[k].content), TRUE, FALSE)),
             ids |-> Append(acc.ids, gha_job_id(subs[k].name)),
             failed |-> FALSE],
            upstream, genv, d_runs_on, d_container)
RECURSIVE ParallelLoop(_, _, _, _, _, _, _)
\* for sub in parallel_substages: ... ; stops at the first member that raises
ParallelLoop(subs, k, acc, upstream, genv, d_runs_on, d_container) ==
    IF k > Len(subs) THEN acc
    ELSE IF Raises(subs[k].content)
         THEN [acc EXCEPT !.failed = TRUE,
                          !.info = IF RaisesLate(subs[k].content)
                                   THEN Append(acc.info,
                                          StageInfo(subs[k].name, subs[k].content,
                                                    extract_stage_environment(subs[k].content),
                                                    extract_stage_agent(subs[k].content),
                                                    extract_stage_post(subs[k].content),
                                                    TRUE, FALSE))
                                   ELSE acc.info]
    ELSE ParallelLoop(subs, k + 1,
            [jobs |-> DictSet(acc.jobs, gha_job_id(subs[k].name),
                              ParallelJobDef(subs[k], upstream, genv, d_runs_on, d_container)),
             info |-> Append(acc.info,
                             StageInfo(subs[k].name, subs[k].content,
                                       extract_stage_environment(subs[k].content),
                                       extract_stage_agent(subs[k].content),
                                       extract_stage_post(subs[k].content), TRUE, FALSE)),
             ids |-> Append(acc.ids, gha_job_id(subs[k].name)),
             failed |-> FALSE],
            upstream, genv, d_runs_on, d_container)

(***************************************************************************)
(* jenkins_extractors: what the step extractors read in a stage body       *)
(* A command is a token sh or echo carrying its text.  What the patterns   *)
(* of the extractors find inside a command text is tabulated for the       *)
(* command texts of the pipelines considered.                              *)
(***************************************************************************)
Sh(c) == Tok("sh", c, "")
Echo(c) == Tok("echo", c, "")
IsCmd(t) == t.k \in {"sh", "echo"}

\* docker\s+build ... -t <tag>, with a tag
HasDockerBuild(c) == c \in {"docker build -t img .", "cd app && docker build -t img ."}
\* docker\s+push\s+<tag>
HasDockerPush(c) == c \in {"docker push img"}
\* docker\s+login
HasDockerLogin(c) == c \in {"echo ${REGISTRY_CRED_PSW} | docker login -u ${REGISTRY_CRED_USR}"}
\* [^'"]*sonar[^'"]*
HasSonar(c) == c \in {"mvn sonar:sonar", "sonar-scanner"}
\* git\s+clone\s+<url>
HasGitClone(c) == c \in {"git clone repo", "cd src && git clone repo"}
\* kubectl\s+... and helm\s+...
HasKubectl(c) == c \in {"kubectl apply"}
HasHelm(c) == c \in {"helm upgrade"}

\* cmd.startswith(...) and "... in cmd" of the command filter
StartsWithGit(c) == c \in {"git clone repo", "git push origin main"}
StartsWithDockerBuild(c) == c \in {"docker build -t img .", "docker build ."}
StartsWithDockerPush(c) == c \in {"docker push img"}
HasMvnSonar(c) == c \in {"mvn sonar:sonar"}
HasWithSonarQubeEnv(c) == FALSE

\* extract_tools: the keys of the tools dict
extract_tools(stage_body) ==
    IF ~HasBlock(stage_body, "tools") THEN {}
    ELSE {w \in {"maven", "jdk", "nodejs", "git"} :
            HasTok(BlockBody(stage_body, "tools"), "arg", w)}

\* a `git url: ...` step, `checkout scm`
GitStep(url, credentialsId) == Tok("git", url, credentialsId)
CheckoutScm == Tok("scm", "", "")

\* extract_git_steps: pattern by pattern, the matches of each in source order
extract_git_steps(stage_body) ==
    LET standard == SelectSeq(stage_body, LAMBDA t : t.k = "git")
        scm == SelectSeq(stage_body, LAMBDA t : t.k = "scm")
        clone == SelectSeq(stage_body, LAMBDA t : IsCmd(t) /\ HasGitClone(t.a))
    IN  [i \in 1..Len(standard) |->
            [type |-> "standard", url |-> standard[i].a, credentialsId |-> standard[i].b]]
        \o [i \in 1..Len(scm) |-> [type |-> "scm", url |-> "", credentialsId |-> ""]]
        \o [i \in 1..Len(clone) |-> [type |-> "clone", url |-> clone[i].a, credentialsId |-> ""]]

\* the content of the block whose `{` is token p of body, as the patterns
\* ...\{([^{}]*(?:\{[^{}]*\}[^{}]*)*)\} capture it (blocks nested at most once)
InnerBlock(body, p) ==
    LET sp == ScanBlock(body, p - 1, p - 1, 0)
    IN  IF sp = NotFound THEN <<>> ELSE Slice(body, sp[1], sp[2])

\* withSonarQubeEnv('server') { ... }
SonarEnv == Tok("withSonarQubeEnv", "server", "")

\* extract_sonarqube_steps: one record per withSonarQubeEnv block, then one
\* for all the sh commands naming sonar, wherever they are
extract_sonarqube_steps(stage_body) ==
    LET at == SelectSeq([i \in 1..Len(stage_body) |-> i],
                        LAMBDA i : stage_body[i].k = "withSonarQubeEnv"
                                   /\ i < Len(stage_body) /\ IsLB(stage_body[i + 1]))
        direct == SelectSeq(stage_body, LAMBDA t : t.k = "sh" /\ HasSonar(t.a))
    IN  [j \in 1..Len(at) |->
            [serverName |-> stage_body[at[j]].a,
             commands |-> [n \in 1..Len(SelectSeq(InnerBlock(stage_body, at[j] + 1),
                                                  LAMBDA t : t.k = "sh")) |->
                             SelectSeq(InnerBlock(stage_body, at[j] + 1),
                                       LAMBDA t : t.k = "sh")[n].a]]]
        \o (IF direct = <<>> THEN <<>>
            ELSE <<[serverName |-> "",
                    commands |-> [n \in 1..Len(direct) |-> direct[n].a]]>>)

\* extract_docker_steps: both build patterns match a tagged build command
extract_docker_steps(stage_body) ==
    LET build == SelectSeq(stage_body, LAMBDA t : IsCmd(t) /\ HasDockerBuild(t.a))
        push == SelectSeq(stage_body, LAMBDA t : IsCmd(t) /\ HasDockerPush(t.a))
        login == SelectSeq(stage_body, LAMBDA t : IsCmd(t) /\ HasDockerLogin(t.a))
        builds == [i \in 1..Len(build) |-> [type |-> "build", cmd |-> build[i].a]]
    IN  builds \o builds
        \o [i \in 1..Len(push) |-> [type |-> "push", cmd |-> push[i].a]]
        \o (IF login # <<>> THEN <<[type |-> "login", cmd |-> ""]>> ELSE <<>>)

\* extract_kubectl_steps: the kubectl matches, then the helm matches
extract_kubectl_steps(stage_body) ==
    LET kubectl == SelectSeq(stage_body, LAMBDA t : IsCmd(t) /\ HasKubectl(t.a))
        helm == SelectSeq(stage_body, LAMBDA t : IsCmd(t) /\ HasHelm(t.a))
    IN  [i \in 1..Len(kubectl) |-> kubectl[i].a] \o [i \in 1..Len(helm) |-> helm[i].a]

\* extract_steps_commands: the sh commands of the steps block (of the whole
\* body when it has none), then its echo commands
extract_steps_commands(stage_body) ==
    LET zone == IF HasBlock(stage_body, "steps") THEN BlockBody(stage_body, "steps")
                ELSE stage_body
    IN  CmdsOf(zone, "sh", 1) \o CmdsOf(zone, "echo", 1)

\* input(message: ...)
InputStep == Tok("input", "Approve", "")

extract_input_steps(stage_body) == SelectSeq(stage_body, LAMBDA t : t.k = "input")

\* script { ... }: api tells whether the content names currentBuild., env. or params.
ScriptBlock(api) == Tok("script", api, "")

extract_script_blocks(stage_body) ==
    LET blocks == SelectSeq(stage_body, LAMBDA t : t.k = "script")
    IN  [i \in 1..Len(blocks) |-> [requires_manual_conversion |-> blocks[i].a = "api"]]

\* the keys of plugin_patterns, in the order of the dict
PluginPatterns ==
    <<"publishHTML", "publishTestResults", "step", "build", "emailext", "slackSend",
      "milestone", "timeout", "retry", "lock", "ws", "node", "waitForQualityGate",
      "readProperties">>

RECURSIVE PluginMatches(_, _)
PluginMatches(stage_body, p) ==
    IF p > Len(PluginPatterns) THEN <<>>
    ELSE LET found == SelectSeq(stage_body,
                                LAMBDA t : t.k = "eff" /\ t.a = PluginPatterns[p])
         IN  [i \in 1..Len(found) |-> [plugin |-> PluginPatterns[p]]]
             \o PluginMatches(stage_body, p + 1)

\* extract_plugin_steps: plugin by plugin, the matches of each in source order
extract_plugin_steps(stage_body) == PluginMatches(stage_body, 1)

(***************************************************************************)
(* Credentials.  A credential token is one of                              *)
(*   usernamePassword, string, file: withCredentials [binding] followed by *)
(*     its block;                                                          *)
(*   paren: withCredentials([usernamePassword(credentialsId: ...)]),       *)
(*     followed by its block;                                              *)
(*   call: credentials('id').                                              *)
(***************************************************************************)
Cred(form, id) == Tok("cred", form, id)

CredText ==
    [id \in {"docker-hub", "DOCKER_HUB", "api.key", "git-key"} |->
        CASE id = "docker-hub" -> <<"d", "o", "c", "k", "e", "r", "-", "h", "u", "b">>
          [] id = "DOCKER_HUB" -> <<"D", "O", "C", "K", "E", "R", "_", "H", "U", "B">>
          [] id = "api.key" -> <<"a", "p", "i", ".", "k", "e", "y">>
          [] id = "git-key" -> <<"g", "i", "t", "-", "k", "e", "y">>]

KeyText ==
    [k \in {"K1", "K2"} |->
        CASE k = "K1" -> <<"K", "1">>
          [] k = "K2" -> <<"K", "2">>]

\* str.upper() on one character, on a string
UpperChar(c) ==
    IF \E u \in DOMAIN LowerCaseOf : LowerCaseOf[u] = c
    THEN CHOOSE u \in DOMAIN LowerCaseOf : LowerCaseOf[u] = c ELSE c
Upper(s) == [i \in 1..Len(s) |-> UpperChar(s[i])]

\* cred_id.upper().replace("-", "_").replace(".", "_")
sanitize_credential_name(cred_id) == Replace(Replace(Upper(cred_id), "-", "_"), ".", "_")

\* key.lower().replace('_', '-')
input_key(key) == Replace(Lower(key), "_", "-")

\* the name of an input: its variable text followed by a fixed text
InputName(base, tag) == [base |-> base, tag |-> tag]
Fixed(tag) == InputName(<<>>, tag)

\* sanitize_credential_name(id).lower().replace('_', '-'), then the suffix
cred_name(id, tag) == InputName(input_key(sanitize_credential_name(CredText[id])), tag)

\* extract_credentials_usage: a set
extract_credentials_usage(stage_body) ==
    {stage_body[i].b : i \in {j \in 1..Len(stage_body) :
                                 \/ stage_body[j].k = "cred"
                                 \/ stage_body[j].k = "git" /\ stage_body[j].b # ""}}

\* extract_withCredentials_blocks: the bindings in brackets followed by a block
extract_withCredentials_blocks(stage_body) ==
    LET at == SelectSeq([i \in 1..Len(stage_body) |-> i],
                        LAMBDA i : /\ stage_body[i].k = "cred"
                                   /\ stage_body[i].a \in {"usernamePassword", "string", "file"}
                                   /\ i < Len(stage_body) /\ IsLB(stage_body[i + 1])
                                   /\ ScanBlock(stage_body, i, i, 0) # NotFound)
    IN  [j \in 1..Len(at) |->
            [type |-> stage_body[at[j]].a, credentialsId |-> stage_body[at[j]].b,
             content |-> InnerBlock(stage_body, at[j] + 1)]]

\* the lists a Python set of credential ids can be iterated as
SetOrders(S) ==
    {o \in [1..Cardinality(S) -> S] : \A x \in S : \E i \in 1..Cardinality(S) : o[i] = x}

(***************************************************************************)
(* action_generator: the inputs and the steps of a composite action        *)
(* A dict is the sequence of its entries in insertion order.               *)
(***************************************************************************)
Input(name, origin, cred, required) ==
    [name |-> name, origin |-> origin, cred |-> cred, required |-> required]

HasKey(d, name) == \E i \in 1..Len(d) : d[i].name = name

\* d[entry.name] = entry
Put(d, entry) ==
    IF HasKey(d, entry.name)
    THEN [i \in 1..Len(d) |-> IF d[i].name = entry.name THEN entry ELSE d[i]]
    ELSE Append(d, entry)

RECURSIVE PutAll(_, _)
PutAll(d, entries) ==
    IF entries = <<>> THEN d ELSE PutAll(Put(d, Head(entries)), Tail(entries))

RECURSIVE PutNew(_, _)
\* for each entry: if entry.name not in d: d[entry.name] = entry
PutNew(d, entries) ==
    IF entries = <<>> THEN d
    ELSE PutNew(IF HasKey(d, Head(entries).name) THEN d ELSE Append(d, Head(entries)),
                Tail(entries))

Keys(d) == [i \in 1..Len(d) |-> d[i].name]

\* the entries one withCredentials binding adds
BindingSecrets(cred) ==
    CASE cred.type = "usernamePassword" ->
            <<Input(cred_name(cred.credentialsId, "-username"), "binding",
                    cred.credentialsId, "true"),
              Input(cred_name(cred.credentialsId, "-password"), "binding",
                    cred.credentialsId, "true")>>
      [] OTHER ->
            <<Input(cred_name(cred.credentialsId, ""), "binding", cred.credentialsId, "true")>>

\* usage: the credential ids of the stage in the order the set yields them
extract_required_secrets_from_stage(stage_body, usage) ==
    LET docker_steps == extract_docker_steps(stage_body)
        cred_blocks == extract_withCredentials_blocks(stage_body)
        docker ==
            IF \E i \in 1..Len(docker_steps) : docker_steps[i].type \in {"push", "login"}
            THEN <<Input(Fixed("docker-username"), "docker", "", "true"),
                   Input(Fixed("docker-password"), "docker", "", "true")>>
            ELSE <<>>
        registry ==
            IF \E i \in 1..Len(stage_body) : IsCmd(stage_body[i]) /\ HasDockerLogin(stage_body[i].a)
            THEN <<Input(Fixed("registry-cred-username"), "registry", "", "false"),
                   Input(Fixed("registry-cred-password"), "registry", "", "false")>>
            ELSE <<>>
        sonar ==
            IF extract_sonarqube_steps(stage_body) # <<>>
            THEN <<Input(Fixed("sonar-token"), "sonar", "", "true"),
                   Input(Fixed("sonar-host-url"), "sonar", "", "true")>>
            ELSE <<>>
        email ==
            IF HasTok(stage_body, "eff", "mail") \/ HasTok(stage_body, "eff", "emailext")
            THEN <<Input(Fixed("email-username"), "email", "", "false"),
                   Input(Fixed("email-password"), "email", "", "false")>>
            ELSE <<>>
        slack ==
            IF HasTok(stage_body, "eff", "slackSend")
            THEN <<Input(Fixed("slack-channel"), "slack", "", "false"),
                   Input(Fixed("slack-webhook-url"), "slack", "", "false")>>
            ELSE <<>>
        bindings == Flatten([i \in 1..Len(cred_blocks) |-> BindingSecrets(cred_blocks[i])])
        direct == [i \in 1..Len(usage) |-> Input(cred_name(usage[i], ""), "usage", usage[i], "false")]
    IN  PutNew(PutAll(<<>>, docker \o registry \o sonar \o email \o slack \o bindings), direct)

\* the keys of the stage's environment dict, in insertion order
RECURSIVE EnvKeyOrder(_, _)
EnvKeyOrder(env_body, seen) ==
    IF env_body = <<>> THEN <<>>
    ELSE IF Head(env_body).k = "kv" /\ Head(env_body).a \notin seen
         THEN <<Head(env_body).a>> \o EnvKeyOrder(Tail(env_body), seen \cup {Head(env_body).a})
    ELSE EnvKeyOrder(Tail(env_body), seen)

stage_env_keys(stage_body) ==
    IF ~HasBlock(stage_body, "environment") THEN <<>>
    ELSE EnvKeyOrder(BlockBody(stage_body, "environment"), {})

\* action_def["inputs"]: the secrets, the Docker inputs, the environment
ActionInputs(stage_body, usage) ==
    LET env_keys == stage_env_keys(stage_body)
        docker == IF extract_docker_steps(stage_body) # <<>>
                  THEN <<Input(Fixed("registry"), "docker-build", "", "false"),
                         Input(Fixed("image-name"), "docker-build", "", "true"),
                         Input(Fixed("build-tag"), "docker-build", "", "false")>>
                  ELSE <<>>
        env == [i \in 1..Len(env_keys) |->
                  Input(InputName(input_key(KeyText[env_keys[i]]), ""), "env", env_keys[i], "false")]
    IN  PutNew(extract_required_secrets_from_stage(stage_body, usage), docker \o env)

generate_tool_setup_steps(tools) ==
    (IF "jdk" \in tools \/ "maven" \in tools
     THEN <<Step("uses", "Set up JDK", <<"actions/setup-java@v4">>, "")>> ELSE <<>>)
    \o (IF "maven" \in tools
        THEN <<Step("uses", "Cache Maven packages", <<"actions/cache@v4">>, "")>> ELSE <<>>)
    \o (IF "nodejs" \in tools
        THEN <<Step("uses", "Set up Node.js", <<"actions/setup-node@v4">>, "")>> ELSE <<>>)

\* with_params["token"] names the input <credential>-token
convert_git_steps_to_actions(git_steps) ==
    [i \in 1..Len(git_steps) |->
        Referencing(
            Step("uses",
                 IF git_steps[i].type = "clone" THEN "Clone repository" ELSE "Checkout code",
                 <<"actions/checkout@v4", git_steps[i].url>>, ""),
            IF git_steps[i].type # "scm" /\ git_steps[i].credentialsId # ""
            THEN <<cred_name(git_steps[i].credentialsId, "-token")>> ELSE <<>>)]

RECURSIVE RunSteps(_, _, _, _)
\* one run step per command, numbered from i
RunSteps(name, cmds, i, cond) ==
    IF i > Len(cmds) THEN <<>>
    ELSE <<Numbered(Step("run", name, <<cmds[i]>>, cond), i)>>
         \o RunSteps(name, cmds, i + 1, cond)

Texts(cmds) == [i \in 1..Len(cmds) |-> IF cmds[i].kind = "echo" THEN "echo " \o cmds[i].text
                                       ELSE cmds[i].text]

\* env_vars of a block name the inputs of its binding; the file step names its own
convert_credentials_to_env_setup(cred_blocks) ==
    Flatten([b \in 1..Len(cred_blocks) |->
        LET id == cred_blocks[b].credentialsId
            env_vars ==
                CASE cred_blocks[b].type = "usernamePassword" ->
                        <<cred_name(id, "-username"), cred_name(id, "-password")>>
                  [] cred_blocks[b].type = "string" -> <<cred_name(id, "")>>
                  [] OTHER -> <<>>
            run == RunSteps("Run with credentials",
                            Texts(extract_steps_commands(cred_blocks[b].content)), 1, "")
        IN  (IF cred_blocks[b].type = "file"
             THEN <<Referencing(Step("run", "Setup file credential", <<id>>, ""),
                                <<cred_name(id, "")>>)>>
             ELSE <<>>)
            \o [k \in 1..Len(run) |-> Referencing(run[k], env_vars)]])

convert_sonarqube_steps(sonar_steps) ==
    Flatten([s \in 1..Len(sonar_steps) |->
        <<Referencing(Step("uses", "SonarQube Scan", <<"sonarqube-scan-action@master">>, ""),
                      <<Fixed("sonar-token"), Fixed("sonar-host-url")>>)>>
        \o [c \in 1..Len(sonar_steps[s].commands) |->
              Referencing(Step("run", "Run SonarQube analysis",
                               <<sonar_steps[s].commands[c]>>, ""),
                          <<Fixed("sonar-token"), Fixed("sonar-host-url")>>)]])

convert_docker_steps(docker_steps) ==
    (IF \E i \in 1..Len(docker_steps) : docker_steps[i].type \in {"push", "login"}
     THEN <<Referencing(Step("uses", "Login to DockerHub", <<"docker/login-action@v3">>, ""),
                        <<Fixed("docker-username"), Fixed("docker-password")>>)>>
     ELSE <<>>)
    \o Flatten([i \in 1..Len(docker_steps) |->
         CASE docker_steps[i].type = "build" ->
                <<Referencing(Step("run", "Build Docker image", <<docker_steps[i].cmd>>, ""),
                              <<Fixed("image-name"), Fixed("build-tag")>>)>>
           [] docker_steps[i].type = "push" ->
                <<Referencing(Step("run", "Push Docker image", <<docker_steps[i].cmd>>, ""),
                              <<Fixed("image-name"), Fixed("build-tag")>>)>>
           [] OTHER -> <<>>])

\* a table that lacks the entry for unstable
condition_map_NoUnstable(condition) ==
    CASE condition = "always" -> "always()"
      [] condition = "success" -> "success()"
      [] condition = "failure" -> "failure()"
      [] condition = "cleanup" -> "always()"
      [] condition = "aborted" -> "cancelled()"
      [] OTHER -> "always()"

\* the table convert_post_actions_to_steps maps a lifecycle condition with
condition_map(condition) ==
    CASE condition = "always" -> "always()"
      [] condition = "success" -> "success()"
      [] condition = "failure" -> "failure()"
      [] condition = "unstable" -> "success() || failure()"
      [] condition = "cleanup" -> "always()"
      [] condition = "aborted" -> "cancelled()"
      [] OTHER -> "always()"

\* the steps one lifecycle condition of a stage's post block adds
PostConditionSteps(actions, condition) ==
    LET gha_condition == condition_map(condition)
        one(key, name, names) ==
            IF key \in actions.keys
            THEN <<Referencing(Step("uses", name, <<condition>>, gha_condition), names)>>
            ELSE <<>>
    IN  one("archive", "Upload artifacts", <<>>) \o one("junit", "Publish test results", <<>>)
        \o one("coverage", "Upload coverage reports", <<>>)
        \o one("mail", "Send email notification",
               <<Fixed("email-username"), Fixed("email-password")>>)
        \o one("slack", "Slack notification",
               <<Fixed("slack-channel"), Fixed("slack-webhook-url")>>)
        \o (IF "deleteDir" \in actions.keys \/ "cleanWs" \in actions.keys
            THEN <<Step("run", "Cleanup workspace", <<condition>>, gha_condition)>> ELSE <<>>)
        \o (IF "commands" \in actions.keys
            THEN [c \in 1..Len(actions.commands) |->
                    Numbered(Step("run", "Post command",
                                  <<condition, Texts(actions.commands)[c]>>, gha_condition), c)]
            ELSE <<>>)
        \o (IF "script_block" \in actions.keys
            THEN <<Step("run", "Post script (MANUAL CONVERSION REQUIRED)", <<condition>>,
                        gha_condition)>>
            ELSE <<>>)

RECURSIVE PostStepsFrom(_, _)
PostStepsFrom(post_info, i) ==
    IF i > Len(PostKinds) THEN <<>>
    ELSE (IF PostKinds[i] \in DOMAIN post_info
          THEN PostConditionSteps(post_info[PostKinds[i]], PostKinds[i]) ELSE <<>>)
         \o PostStepsFrom(post_info, i + 1)

\* post_info.items() yields the conditions in the order _extract_post_body adds them
convert_post_actions_to_steps(post_info) == PostStepsFrom(post_info, 1)

\* the commands left to the generic steps
filtered_commands(stage_body) ==
    LET git_steps == extract_git_steps(stage_body)
        sonar_steps == extract_sonarqube_steps(stage_body)
        docker_steps == extract_docker_steps(stage_body)
    IN  SelectSeq(Texts(extract_steps_commands(stage_body)),
                  LAMBDA cmd : ~(\/ StartsWithGit(cmd) /\ git_steps # <<>>
                                 \/ HasWithSonarQubeEnv(cmd) /\ sonar_steps # <<>>
                                 \/ StartsWithDockerBuild(cmd) /\ docker_steps # <<>>
                                 \/ StartsWithDockerPush(cmd) /\ docker_steps # <<>>
                                 \/ HasMvnSonar(cmd) /\ sonar_steps # <<>>))

\* the inputs the re.sub rewriting of ${IMAGE}, ${BUILD_TAG}, ${REGISTRY},
\* ${REGISTRY_CRED_USR} and ${REGISTRY_CRED_PSW} puts in a generic command
processed_cmd_inputs(cmd) ==
    CASE cmd = "echo ${REGISTRY_CRED_PSW} | docker login -u ${REGISTRY_CRED_USR}" ->
            <<Fixed("registry-cred-password"), Fixed("registry-cred-username")>>
      [] cmd = "deploy ${IMAGE}" -> <<Fixed("image-name")>>
      [] OTHER -> <<>>

\* step["if"] of a generic command naming the registry credential inputs
CommandIf(cmd) ==
    IF HasDockerLogin(cmd) THEN "${{ inputs.registry-cred-username != '' }}" ELSE ""

ManualScriptSteps(script_blocks) ==
    Flatten([i \in 1..Len(script_blocks) |->
        IF script_blocks[i].requires_manual_conversion
        THEN <<Numbered(Step("run", "Script block (REQUIRES MANUAL CONVERSION)", <<>>, ""), i)>>
        ELSE <<>>])

\* runs.steps of the action, category after category
ActionSteps(stage_body, post_info) ==
    LET git_steps == extract_git_steps(stage_body)
        cred_blocks == extract_withCredentials_blocks(stage_body)
        sonar_steps == extract_sonarqube_steps(stage_body)
        docker_steps == extract_docker_steps(stage_body)
        commands == filtered_commands(stage_body)
        kubectl_commands == extract_kubectl_steps(stage_body)
        plugin_steps == extract_plugin_steps(stage_body)
    IN  generate_tool_setup_steps(extract_tools(stage_body))
        \o convert_git_steps_to_actions(git_steps)
        \o convert_credentials_to_env_setup(cred_blocks)
        \o convert_sonarqube_steps(sonar_steps)
        \o convert_docker_steps(docker_steps)
        \o [i \in 1..Len(commands) |->
              Numbered(Referencing(Step("run", "Run command", <<commands[i]>>,
                                        CommandIf(commands[i])),
                                   processed_cmd_inputs(commands[i])), i)]
        \o RunSteps("Run Kubernetes command", kubectl_commands, 1, "")
        \o ManualScriptSteps(extract_script_blocks(stage_body))
        \o [i \in 1..Len(plugin_steps) |->
              Step("run", "(REQUIRES MANUAL CONVERSION)", <<plugin_steps[i].plugin>>, "")]
        \o (IF DOMAIN post_info # {} THEN convert_post_actions_to_steps(post_info) ELSE <<>>)

generate_enhanced_composite_action(stage_name, stage_body, post_info, usage) ==
    [name |-> stage_name,
     inputs |-> ActionInputs(stage_body, usage),
     steps |-> ActionSteps(stage_body, post_info)]

(***************************************************************************)
(* action_generator.save_enhanced_composite_actions (metadata part) and    *)
(* converter.create_enhanced_job_steps                                     *)
(***************************************************************************)
\* usage: the credential ids of the stage in the order the set yields them
ActionMeta(stage_info, usage) ==
    [name |-> stage_info.name,
     path |-> action_dir_name(stage_info.name),
     env |-> stage_info.env,
     env_keys |-> stage_env_keys(stage_info.body),
     credentials |-> usage,
     required_secrets |-> Keys(extract_required_secrets_from_stage(stage_info.body, usage)),
     has_docker |-> extract_docker_steps(stage_info.body) # <<>>,
     has_kubectl |-> extract_kubectl_steps(stage_info.body) # <<>>,
     has_sonarqube |-> extract_sonarqube_steps(stage_info.body) # <<>>,
     has_post_actions |-> DOMAIN extract_stage_post(stage_info.body) # {},
     approval_environment |->
        IF extract_input_steps(stage_info.body) # <<>>
        THEN action_dir_name(stage_info.name) ELSE <<>>,
     manual_conversion_needed |->
        \/ extract_plugin_steps(stage_info.body) # <<>>
        \/ \E i \in 1..Len(extract_script_blocks(stage_info.body)) :
              extract_script_blocks(stage_info.body)[i].requires_manual_conversion
        \/ \E c \in DOMAIN extract_stage_post(stage_info.body) :
              "script_block" \in extract_stage_post(stage_info.body)[c].keys]

\* the action.yml written for a stage record
ActionFile(stage_info, usage) ==
    [dir |-> action_dir_name(stage_info.name),
     def |-> generate_enhanced_composite_action(stage_info.name, stage_info.body,
                                                extract_stage_post(stage_info.body), usage)]

\* one iteration order of its credential set for every stage record
UsageOrders(infos) ==
    {u \in [1..Len(infos) ->
              UNION {SetOrders(extract_credentials_usage(infos[i].body)) : i \in 1..Len(infos)}] :
        \A i \in 1..Len(infos) : u[i] \in SetOrders(extract_credentials_usage(infos[i].body))}

save_enhanced_composite_actions(infos, usages) ==
    [i \in 1..Len(infos) |-> ActionMeta(infos[i], usages[i])]

ActionStepTimeout == 30

\* "git" in str(cred).lower() for one of the credentials
HandlesGit(action_info) ==
    \E i \in 1..Len(action_info.credentials) :
        Contains(Lower(CredText[action_info.credentials[i]]), <<"g", "i", "t">>)

create_enhanced_job_steps(action_info) ==
    LET fetch == action_info.has_sonarqube
                 \/ Contains(Lower(NameText[action_info.name]), <<"s", "o", "n", "a", "r">>)
        checkout == IF fetch THEN [CheckoutStep EXCEPT !.with = <<Fixed("fetch-depth")>>]
                    ELSE CheckoutStep
        with_secrets == action_info.required_secrets
        with_env == SelectSeq([i \in 1..Len(action_info.env_keys) |->
                                 InputName(input_key(KeyText[action_info.env_keys[i]]), "")],
                              LAMBDA k : \A j \in 1..Len(with_secrets) : with_secrets[j] # k)
        with_env_block == with_secrets \o with_env
        with_docker ==
            IF action_info.has_docker
            THEN SelectSeq(<<Fixed("image-name"), Fixed("build-tag"), Fixed("registry")>>,
                           LAMBDA k : \A j \in 1..Len(with_env_block) : with_env_block[j] # k)
            ELSE <<>>
        step == [Step("uses", action_info.name, action_info.path, "") EXCEPT
                    !.with = with_env_block \o with_docker,
                    !.timeout = IF action_info.has_docker \/ action_info.has_kubectl
                                THEN ActionStepTimeout ELSE 0]
    IN  (IF HandlesGit(action_info) THEN <<>> ELSE <<checkout>>) \o <<step>>

\* any(keyword in name.lower() for keyword in ["deploy", "release", "publish", "production"])
NameIsCritical(name) ==
    \E keyword \in {<<"d", "e", "p", "l", "o", "y">>, <<"r", "e", "l", "e", "a", "s", "e">>,
                     <<"p", "u", "b", "l", "i", "s", "h">>,
                     <<"p", "r", "o", "d", "u", "c", "t", "i", "o", "n">>} :
        Contains(Lower(NameText[name]), keyword)

\* the body of the update loop for one job and the action metadata at its position
UpdateJob(job, action_info) ==
    [job EXCEPT !.environment = IF action_info.approval_environment # <<>>
                                THEN action_info.approval_environment ELSE @,
                !.steps = create_enhanced_job_steps(action_info),
                !.continue_on_error = IF action_info.manual_conversion_needed
                                         /\ ~NameIsCritical(action_info.name)
                                      THEN TRUE ELSE @]

RECURSIVE UpdateLoop(_, _, _)
\* for i, job_key in enumerate(job_keys): if i < len(action_paths): ...
UpdateLoop(jobs, paths, i) ==
    IF i > Len(jobs) THEN jobs
    ELSE IF i <= Len(paths)
         THEN UpdateLoop([jobs EXCEPT ![i].def = UpdateJob(@, paths[i])], paths, i + 1)
    ELSE UpdateLoop(jobs, paths, i + 1)

(***************************************************************************)
(* converter: pipeline-level post job                                      *)
(***************************************************************************)
PostJobKinds == <<"always", "success", "failure", "cleanup">>

GhaCondition(kind) ==
    CASE kind = "always" -> "always()"
      [] kind = "success" -> "success()"
      [] kind = "failure" -> "failure()"
      [] kind = "cleanup" -> "always()"
      [] OTHER -> "always()"

RECURSIVE CommandSteps(_, _, _)
CommandSteps(cmds, kind, i) ==
    IF i > Len(cmds) THEN <<>>
    ELSE <<Step("run", kind, <<cmds[i].kind, cmds[i].text>>, GhaCondition(kind))>>
         \o CommandSteps(cmds, kind, i + 1)

\* the steps one lifecycle condition adds to post_job_steps
PostKindSteps(pdata, kind) ==
    LET one(key) == IF key \in pdata.keys
                    THEN <<Step(key, kind, <<>>, GhaCondition(kind))>> ELSE <<>>
    IN  one("archive") \o one("junit")
        \o (IF "commands" \in pdata.keys THEN CommandSteps(pdata.commands, kind, 1) ELSE <<>>)
        \o one("mail") \o one("slack") \o one("emailext") \o one("publishHTML")

RECURSIVE PostJobSteps(_, _)
PostJobSteps(ppost, i) ==
    IF i > Len(PostJobKinds) THEN <<>>
    ELSE (IF PostJobKinds[i] \in DOMAIN ppost
          THEN PostKindSteps(ppost[PostJobKinds[i]], PostJobKinds[i]) ELSE <<>>)
         \o PostJobSteps(ppost, i + 1)

\* all_jobs = [k for k in gha["jobs"].keys() if k != "pipeline-post"]
AllJobs(jobs) == SelectSeq(JobKeys(jobs), LAMBDA k : k # PipelinePostId)

PostJobDef(jobs, steps, d_runs_on, d_container) ==
    [EmptyJob EXCEPT !.name = "Pipeline Post Actions", !.runs_on = d_runs_on,
                     !.needs = NeedsList(AllJobs(jobs)),
                     !.if_cond = <<Cond("always", "", "")>>,
                     !.timeout = FallbackTimeout, !.steps = steps,
                     !.container = d_container]

\* gha["jobs"] after the pipeline-level post section (lines 496-603)
WithPipelinePost(jobs, ppost, d_runs_on, d_container) ==
    LET steps == <<CheckoutStep>> \o PostJobSteps(ppost, 1)
    IN  IF DOMAIN ppost # {} /\ Len(steps) > 1
        THEN DictSet(jobs, PipelinePostId, PostJobDef(jobs, steps, d_runs_on, d_container))
        ELSE jobs

(***************************************************************************)
(* The conversion as a state machine                                       *)
(***************************************************************************)
VARIABLES input, text, pc, idx, global_env, default_runs_on, default_container,
          stages_list, pipeline_post, workflow_env, jobs, stages_info,
          last_job_ids, prev_job_id, action_paths, written, result

vars == <<input, text, pc, idx, global_env, default_runs_on, default_container,
          stages_list, pipeline_post, workflow_env, jobs, stages_info,
          last_job_ids, prev_job_id, action_paths, written, result>>

parsed == <<global_env, default_runs_on, default_container, stages_list,
            pipeline_post, workflow_env>>

\* lines 33-149: structure parsing, defaults, the empty workflow
ParseStructure ==
    /\ pc = "start"
    /\ UNCHANGED result
    /\ LET pipeline_body == BlockBody(text, "pipeline")
       IN  IF ~HasBlock(text, "pipeline") \/ ~HasBlock(pipeline_body, "stages")
           THEN /\ pc' = "raised"
                /\ UNCHANGED parsed
           ELSE /\ pc' = "stages"
                /\ global_env' = IF HasBlock(pipeline_body, "environment")
                                 THEN extract_env_kv(BlockBody(pipeline_body, "environment"))
                                 ELSE EmptyEnv
                /\ workflow_env' = global_env'
                /\ stages_list' = split_stages(BlockBody(pipeline_body, "stages"))
                /\ pipeline_post' = extract_pipeline_post(pipeline_body)
                /\ default_runs_on' = DefaultRunsOn(extract_global_agent(pipeline_body))
                /\ default_container' = DefaultContainer(extract_global_agent(pipeline_body))
    /\ UNCHANGED <<input, text, idx, jobs, stages_info, last_job_ids, prev_job_id,
                   action_paths, written>>

\* the except branch of the stage loop (lines 405-441), on top of what the try
\* block had already stored
FallbackStage(stage, base_jobs, base_info) ==
    /\ jobs' = DictSet(base_jobs, gha_job_id(stage.name),
                       FallbackJobDef(prev_job_id, last_job_ids))
    /\ last_job_ids' = <<>>
    /\ prev_job_id' = gha_job_id(stage.name)
    /\ stages_info' = Append(base_info,
                             StageInfo(stage.name, stage.content, EmptyEnv, NoAgent,
                                       EmptyPost, FALSE, TRUE))

\* one iteration of `for stage in stages_list` (lines 286-441)
ProcessStage ==
    /\ pc = "stages"
    /\ UNCHANGED result
    /\ idx <= Len(stages_list)
    /\ LET stage == stages_list[idx]
           subs == extract_parallel(stage.content)
           acc == ParallelLoop(subs, 1,
                               [jobs |-> jobs, info |-> stages_info, ids |-> <<>>,
                                failed |-> FALSE],
                               Upstream(prev_job_id, last_job_ids),
                               global_env, default_runs_on, default_container)
       IN  IF subs # <<>>
           THEN IF acc.failed
                THEN FallbackStage(stage, acc.jobs, acc.info)
                ELSE /\ jobs' = acc.jobs
                     /\ stages_info' = acc.info
                     /\ last_job_ids' = acc.ids
                     /\ prev_job_id' = <<>>
           ELSE IF Raises(stage.content)
                THEN FallbackStage(stage, jobs,
                        IF RaisesLate(stage.content)
                        THEN Append(stages_info,
                               StageInfo(stage.name, stage.content,
                                         extract_stage_environment(stage.content),
                                         extract_stage_agent(stage.content),
                                         extract_stage_post(stage.content), FALSE, FALSE))
                        ELSE stages_info)
                ELSE /\ jobs' = DictSet(jobs, gha_job_id(stage.name),
                                        SequentialJobDef(stage, prev_job_id, last_job_ids,
                                                         global_env, default_runs_on,
                                                         default_container))
                     /\ stages_info' = Append(stages_info,
                            StageInfo(stage.name, stage.content,
                                      extract_stage_environment(stage.content),
                                      extract_stage_agent(stage.content),
                                      extract_stage_post(stage.content), FALSE, FALSE))
                     /\ last_job_ids' = <<>>
                     /\ prev_job_id' = gha_job_id(stage.name)
    /\ idx' = idx + 1
    /\ UNCHANGED <<input, text, pc, action_paths, written>>
    /\ UNCHANGED parsed

\* lines 443-458: materialize one composite action per stage record
SaveActions ==
    /\ pc = "stages"
    /\ UNCHANGED result
    /\ idx > Len(stages_list)
    /\ \E usages \in UsageOrders(stages_info) :
         /\ action_paths' = save_enhanced_composite_actions(stages_info, usages)
         /\ written' = [i \in 1..Len(stages_info) |-> ActionFile(stages_info[i], usages[i])]
    /\ pc' = "update"
    /\ UNCHANGED <<input, text, idx, jobs, stages_info, last_job_ids, prev_job_id>>
    /\ UNCHANGED parsed

\* lines 460-494: graft the action steps onto the jobs, by position
UpdateJobSteps ==
    /\ pc = "update"
    /\ UNCHANGED result
    /\ jobs' = UpdateLoop(jobs, action_paths, 1)
    /\ pc' = "post"
    /\ UNCHANGED <<input, text, idx, stages_info, last_job_ids, prev_job_id,
                   action_paths, written>>
    /\ UNCHANGED parsed

\* lines 496-625: the pipeline-post job, then return
PipelinePost ==
    /\ pc = "post"
    /\ UNCHANGED result
    /\ jobs' = WithPipelinePost(jobs, pipeline_post, default_runs_on, default_container)
    /\ pc' = "done"
    /\ UNCHANGED <<input, text, idx, stages_info, last_job_ids, prev_job_id,
                   action_paths, written>>
    /\ UNCHANGED parsed

Next == ParseStructure \/ ProcessStage \/ SaveActions \/ UpdateJobSteps \/ PipelinePost

(***************************************************************************)
(* Pipelines given to the converter.  A pipeline is described by its       *)
(* declarations and rendered to the token text the converter reads; a raw  *)
(* input is a token text of its own.                                       *)
(***************************************************************************)
SeqsUpTo(S, n) == UNION {[1..m -> S] : m \in 1..n}

AgentDecl(form, label, image, args) ==
    [form |-> form, label |-> label, image |-> image, args |-> args]
AbsentAgent == AgentDecl("absent", "", "", "")

RenderAgent(d) ==
    CASE d.form = "absent" -> <<>>
      [] d.form = "bare_any" -> <<Kw("agent"), Kw("any")>>
      [] d.form = "block_any" -> <<Kw("agent"), LB, Kw("any"), RB>>
      [] d.form = "label" -> <<Kw("agent"), LB, Arg("label", d.label), RB>>
      [] d.form = "docker" ->
            <<Kw("agent"), LB, Kw("docker"), LB, Arg("image", d.image)>>
            \o (IF d.args # "" THEN <<Arg("args", d.args)>> ELSE <<>>)
            \o <<RB, RB>>

\* an environment declaration is a sequence of <<key, value>> lines
RenderEnv(pairs) ==
    IF pairs = <<>> THEN <<>>
    ELSE <<Kw("environment"), LB>>
         \o [i \in 1..Len(pairs) |-> KV(pairs[i][1], pairs[i][2])]
         \o <<RB>>

\* a post declaration: present or not, and its condition blocks
PostDecl(present, conds) == [present |-> present, conds |-> conds]
AbsentPost == PostDecl(FALSE, <<>>)
PostCond(kind, effs) == [kind |-> kind, effs |-> effs]

RenderPost(d) ==
    IF ~d.present THEN <<>>
    ELSE <<Kw("post"), LB>>
         \o Flatten([i \in 1..Len(d.conds) |->
                       <<Kw(d.conds[i].kind), LB>> \o d.conds[i].effs \o <<RB>>])
         \o <<RB>>

\* extra: further tokens of the stage body, before its steps block;
\* steps: the tokens of its steps block
StageDecl(name, agent, env, post) ==
    [name |-> name, agent |-> agent, env |-> env, post |-> post, extra |-> <<>>,
     steps |-> <<Tok("sh", "make", "")>>]
WithExtra(st, toks) == [st EXCEPT !.extra = toks]
WithSteps(st, toks) == [st EXCEPT !.steps = toks]

RenderStage(st) ==
    <<StageHdr(st.name), LB>> \o RenderAgent(st.agent) \o RenderEnv(st.env)
    \o st.extra \o <<Kw("steps"), LB>> \o st.steps \o <<RB>>
    \o RenderPost(st.post) \o <<RB>>

PlainItem(st) == [kind |-> "plain", st |-> st, members |-> <<>>]
ParallelItem(name, members) ==
    [kind |-> "parallel", st |-> StageDecl(name, AbsentAgent, <<>>, AbsentPost),
     members |-> members]

RenderItem(it) ==
    IF it.kind = "plain" THEN RenderStage(it.st)
    ELSE <<StageHdr(it.st.name), LB, Kw("parallel"), LB>>
         \o Flatten([i \in 1..Len(it.members) |-> RenderStage(it.members[i])])
         \o <<RB, RB>>

Pipeline(agent, env, items, post) ==
    [kind |-> "pipeline", raw |-> <<>>, agent |-> agent, env |-> env,
     items |-> items, post |-> post]
RawInput(toks) ==
    [kind |-> "raw", raw |-> toks, agent |-> AbsentAgent, env |-> <<>>,
     items |-> <<>>, post |-> AbsentPost]

\* a described pipeline enclosed in another block: node { pipeline { ... } }
Wrapped(p) == [p EXCEPT !.kind = "wrapped"]

RenderPipeline(p) ==
    <<Kw("pipeline"), LB>> \o RenderAgent(p.agent) \o RenderEnv(p.env)
    \o <<Kw("stages"), LB>>
    \o Flatten([i \in 1..Len(p.items) |-> RenderItem(p.items[i])])
    \o <<RB>> \o RenderPost(p.post) \o <<RB>>

Render(p) ==
    CASE p.kind = "raw" -> p.raw
      [] p.kind = "wrapped" -> <<Kw("node"), LB>> \o RenderPipeline(p) \o <<RB>>
      [] OTHER -> RenderPipeline(p)

PosName(i) == <<"S1", "S2", "S3", "S4">>[i]
Bare(name) == StageDecl(name, AbsentAgent, <<>>, AbsentPost)

\* --- stage graphs: names that collide after sanitizing, parallel groups ---
MaxGraphItems == 3
GraphNames == {"A", "a!", "B", "C", "D"}
GroupShapes == {<<"A", "B">>, <<"a!", "A">>, <<"B">>, <<"C", "D", "a!">>}
GraphItems ==
    {PlainItem(Bare(n)) : n \in GraphNames}
    \cup {ParallelItem("G", [i \in 1..Len(g) |-> Bare(g[i])]) : g \in GroupShapes}
GraphInputs ==
    {Pipeline(AbsentAgent, <<>>, items, AbsentPost) : items \in SeqsUpTo(GraphItems, MaxGraphItems)}

\* --- agents ---
MaxAgentItems == 2
PipelineAgents ==
    {AbsentAgent, AgentDecl("bare_any", "", "", ""), AgentDecl("label", "Windows", "", ""),
     AgentDecl("docker", "", "node", "-u root")}
StageAgents ==
    {AbsentAgent, AgentDecl("bare_any", "", "", ""), AgentDecl("block_any", "", "", ""),
     AgentDecl("label", "gpu", "", ""), AgentDecl("label", "Linux", "", ""),
     AgentDecl("docker", "", "maven", ""), AgentDecl("docker", "", "maven", "-v m2")}
AgentItemsAt(i) ==
    {PlainItem(StageDecl(PosName(i), a, <<>>, AbsentPost)) : a \in StageAgents}
    \cup {ParallelItem("G", <<StageDecl("A", a, <<>>, AbsentPost), Bare("B")>>) :
            a \in StageAgents}
AgentItemSeqs ==
    UNION {{its \in [1..m -> UNION {AgentItemsAt(i) : i \in 1..m}] :
              \A i \in 1..m : its[i] \in AgentItemsAt(i)} : m \in 1..MaxAgentItems}
AgentInputs ==
    {Pipeline(a, <<>>, items, AbsentPost) : a \in PipelineAgents, items \in AgentItemSeqs}

\* --- environments ---
MaxEnvItems == 2
GlobalEnvs == {<<>>, <<<<"K1", "v1">>>>, <<<<"K1", "v1">>, <<"K2", "v2">>>>}
StageEnvs ==
    {<<>>, <<<<"K1", "v1">>>>, <<<<"K1", "v2">>>>, <<<<"K2", "v1">>>>,
     <<<<"K1", "v1">>, <<"K2", "v2">>>>, <<<<"K1", "v2">>, <<"K2", "v2">>>>}
EnvItemsAt(i) ==
    {PlainItem(StageDecl(PosName(i), AbsentAgent, e, AbsentPost)) : e \in StageEnvs}
    \cup {ParallelItem("G", <<StageDecl("A", AbsentAgent, e, AbsentPost),
                              StageDecl("B", AbsentAgent, <<<<"K1", "v1">>>>, AbsentPost)>>) :
            e \in StageEnvs}
EnvItemSeqs ==
    UNION {{its \in [1..m -> UNION {EnvItemsAt(i) : i \in 1..m}] :
              \A i \in 1..m : its[i] \in EnvItemsAt(i)} : m \in 1..MaxEnvItems}
EnvInputs ==
    {Pipeline(AbsentAgent, e, items, AbsentPost) : e \in GlobalEnvs, items \in EnvItemSeqs}

\* --- post blocks ---
MaxPostItems == 2
Archive == Eff("archiveArtifacts")
PipelinePosts ==
    {AbsentPost,
     PostDecl(TRUE, <<>>),
     PostDecl(TRUE, <<PostCond("always", <<Archive>>)>>),
     PostDecl(TRUE, <<PostCond("always", <<Eff("deleteDir")>>)>>),
     PostDecl(TRUE, <<PostCond("unstable", <<Archive>>)>>),
     PostDecl(TRUE, <<PostCond("success", <<Tok("echo", "ok", "")>>),
                      PostCond("failure", <<Tok("sh", "notify", ""), Eff("mail")>>)>>)}
StagePosts ==
    {AbsentPost,
     PostDecl(TRUE, <<PostCond("always", <<Archive>>)>>),
     PostDecl(TRUE, <<PostCond("aborted", <<Eff("junit")>>)>>)}
PostItemsAt(i) ==
    {PlainItem(StageDecl(PosName(i), AbsentAgent, <<>>, sp)) : sp \in StagePosts}
PostItemSeqs ==
    UNION {{its \in [1..m -> UNION {PostItemsAt(i) : i \in 1..m}] :
              \A i \in 1..m : its[i] \in PostItemsAt(i)} : m \in 1..MaxPostItems}
PostInputs ==
    {Pipeline(AbsentAgent, <<>>, items, pp) : pp \in PipelinePosts, items \in PostItemSeqs}

\* --- when blocks ---
MaxWhenItems == 2
Branch(b) == Arg("branch", b)
Expression(e, refs) == Tok("return", e, refs)
Combinator(kw, inner) == <<Kw(kw), LB>> \o inner \o <<RB>>
WhenBodies ==
    {<<Branch("main")>>, <<Branch("dev")>>,
     <<Expression("isRelease()", "")>>,
     <<Expression("params.DEPLOY", "params")>>,
     <<Tok("envcond", "TARGET", "prod")>>,
     <<Branch("dev"), Expression("isRelease()", "")>>,
     Combinator("anyOf", <<Branch("main"), Branch("dev")>>),
     Combinator("anyOf", <<Expression("params.DEPLOY", "params")>>),
     Combinator("allOf", <<Branch("dev"), Expression("isRelease()", "")>>),
     <<Kw("buildingTag")>> \o Combinator("anyOf", <<Kw("changeRequest")>>)}
RenderWhen(body) == <<Kw("when"), LB>> \o body \o <<RB>>
WhenItemsAt(i) ==
    {PlainItem(Bare(PosName(i)))}
    \cup {PlainItem(WithExtra(Bare(PosName(i)), RenderWhen(b))) : b \in WhenBodies}
WhenItemSeqs ==
    UNION {{its \in [1..m -> UNION {WhenItemsAt(i) : i \in 1..m}] :
              \A i \in 1..m : its[i] \in WhenItemsAt(i)} : m \in 1..MaxWhenItems}

WhenInputs ==
    {Pipeline(AbsentAgent, <<>>, items, AbsentPost) : items \in WhenItemSeqs}

\* --- when blocks with several recognized predicates ---
MaxConjItems == 2
EnvCond(name, value) == Tok("envcond", name, value)
ConjBodies ==
    {<<Branch("main")>>,
     <<Branch("dev"), EnvCond("TARGET", "prod")>>,
     <<Branch("main"), EnvCond("TARGET", "prod")>>,
     <<Branch("master"), Kw("changeRequest")>>,
     <<Branch("dev"), Expression("params.DEPLOY", "params")>>,
     <<Branch("main"), Expression("params.DEPLOY", "params")>>,
     <<Expression("params.A || params.B", "params"), EnvCond("TARGET", "")>>,
     <<EnvCond("TARGET", "prod"), Kw("buildingTag")>>,
     <<Branch("dev"), Expression("params.DEPLOY", "params"), EnvCond("TARGET", "prod"),
       Kw("changeRequest"), Kw("buildingTag")>>}
ConjItemsAt(i) ==
    {PlainItem(Bare(PosName(i)))}
    \cup {PlainItem(WithExtra(Bare(PosName(i)), RenderWhen(b))) : b \in ConjBodies}
ConjItemSeqs ==
    UNION {{its \in [1..m -> UNION {ConjItemsAt(i) : i \in 1..m}] :
              \A i \in 1..m : its[i] \in ConjItemsAt(i)} : m \in 1..MaxConjItems}
ConjInputs ==
    {Pipeline(AbsentAgent, <<>>, items, AbsentPost) : items \in ConjItemSeqs}

\* --- stages whose processing raises ---
MaxFallbackItems == 3
Failing(name, tok) == WithExtra(Bare(name), <<tok>>)
MemberNames(i) == IF i = 1 THEN <<"A", "B">> ELSE <<"C", "D">>
FallbackItemsAt(i) ==
    {PlainItem(Bare(PosName(i)))}
    \cup {PlainItem(Failing(PosName(i), tok)) : tok \in {Boom, BoomLate}}
    \cup (IF i > 2 THEN {}
          ELSE {ParallelItem(PosName(i), <<Bare(MemberNames(i)[1]), Bare(MemberNames(i)[2])>>)}
               \cup {ParallelItem(PosName(i), <<Bare(MemberNames(i)[1]),
                                                Failing(MemberNames(i)[2], tok)>>) :
                       tok \in {Boom, BoomLate}})
FallbackItemSeqs ==
    UNION {{its \in [1..m -> UNION {FallbackItemsAt(i) : i \in 1..m}] :
              \A i \in 1..m : its[i] \in FallbackItemsAt(i)} : m \in 1..MaxFallbackItems}
FallbackInputs ==
    {Pipeline(AbsentAgent, <<>>, items, AbsentPost) : items \in FallbackItemSeqs}


\* --- stages, groups and failed stages, with or without a pipeline post ---
IntegrityPosts == {AbsentPost, PostDecl(TRUE, <<PostCond("always", <<Archive>>)>>)}
IntegrityInputs ==
    {Pipeline(AbsentAgent, <<>>, items, pp) : items \in FallbackItemSeqs, pp \in IntegrityPosts}
\* --- stages and parallel members named after deployments ---
MaxDeployItems == 3
DeployPlainNames(i) ==
    IF i = 1 THEN {"Build", "Deploy"}
    ELSE IF i = 2 THEN {"Test", "release"}
    ELSE {"Docs", "RELEASE"}
DeployItemsAt(i) ==
    {PlainItem(Bare(n)) : n \in DeployPlainNames(i)}
    \cup (IF i = 1
          THEN {PlainItem(Failing("Deploy", Boom)),
                ParallelItem("Ship", <<Bare("Publish"), Bare("Docs")>>)}
          ELSE {})
DeployItemSeqs ==
    UNION {{its \in [1..m -> UNION {DeployItemsAt(i) : i \in 1..m}] :
              \A i \in 1..m : its[i] \in DeployItemsAt(i)} : m \in 1..MaxDeployItems}
DeployInputs ==
    {Pipeline(AbsentAgent, <<>>, items, AbsentPost) : items \in DeployItemSeqs}

\* --- credentials ---
MaxCredItems == 2
WithCredentials(form, id) == <<Cred(form, id), LB, Sh("make push"), RB>>
CredSteps ==
    {<<Sh("make")>>,
     WithCredentials("usernamePassword", "docker-hub"),
     WithCredentials("paren", "docker-hub"),
     WithCredentials("string", "api.key"),
     WithCredentials("file", "api.key") \o <<Cred("call", "DOCKER_HUB")>>,
     <<Cred("call", "docker-hub"), Cred("call", "api.key"), Sh("make")>>,
     <<Cred("call", "DOCKER_HUB"), Cred("call", "docker-hub"), Sh("make")>>,
     <<GitStep("repo", "git-key"), Sh("make")>>}
CredItemsAt(i) ==
    {PlainItem(WithSteps(StageDecl(PosName(i), AbsentAgent, e, AbsentPost), st)) :
        e \in {<<>>, <<<<"K1", "v1">>>>}, st \in CredSteps}
CredItemSeqs ==
    UNION {{its \in [1..m -> UNION {CredItemsAt(i) : i \in 1..m}] :
              \A i \in 1..m : its[i] \in CredItemsAt(i)} : m \in 1..MaxCredItems}
CredInputs ==
    {Pipeline(AbsentAgent, <<>>, items, AbsentPost) : items \in CredItemSeqs}

\* --- steps and post blocks of a stage ---
MaxActionItems == 2
LoginCmd == "echo ${REGISTRY_CRED_PSW} | docker login -u ${REGISTRY_CRED_USR}"
ActionStepBodies ==
    {<<Sh("make")>>,
     <<Echo("start"), Sh("make")>>,
     <<Sh("docker push img"), Sh("docker build -t img .")>>,
     <<Sh("sonar-scanner")>>,
     <<Sh("mvn sonar:sonar"), Sh("make")>>,
     <<SonarEnv, LB, Sh("mvn sonar:sonar"), RB>>,
     <<Sh("git clone repo"), Sh("kubectl apply")>>,
     <<Sh("cd src && git clone repo"), Sh("cd app && docker build -t img .")>>,
     <<CheckoutScm, GitStep("repo", ""), InputStep, Sh("make")>>,
     <<CheckoutScm, Sh("git push origin main")>>,
     <<GitStep("repo", "git-key"), Sh("deploy ${IMAGE}")>>,
     <<Sh("docker build ."), Sh("docker push img")>>,
     <<ScriptBlock("api"), Eff("retry"), Eff("milestone"), ScriptBlock("plain"), Sh("make")>>,
     WithCredentials("string", "api.key") \o <<Sh("helm upgrade"), Sh(LoginCmd)>>}
ToolBlocks == {<<>>, <<Kw("tools"), LB, Arg("maven", "m3"), Arg("nodejs", "n18"), RB>>}
ActionPosts ==
    {AbsentPost,
     PostDecl(TRUE, <<PostCond("always", <<Archive, Sh("cleanup")>>)>>),
     PostDecl(TRUE, <<PostCond("unstable", <<Eff("junit")>>),
                      PostCond("aborted", <<Eff("slackSend"), Eff("deleteDir")>>)>>),
     PostDecl(TRUE, <<PostCond("failure", <<Eff("mail"), ScriptBlock("api")>>),
                      PostCond("cleanup", <<Eff("cleanWs")>>),
                      PostCond("success", <<Eff("publishCoverage"), Echo("ok")>>)>>)}
ActionItemsAt(i) ==
    IF i = 1
    THEN {PlainItem(WithSteps(WithExtra(StageDecl(PosName(i), AbsentAgent, <<>>, sp), tb), st)) :
            sp \in ActionPosts, tb \in ToolBlocks, st \in ActionStepBodies}
    ELSE {PlainItem(Bare(PosName(i))),
          PlainItem(StageDecl(PosName(i), AbsentAgent, <<>>,
                              PostDecl(TRUE, <<PostCond("unstable", <<Sh("report")>>)>>)))}
ActionItemSeqs ==
    UNION {{its \in [1..m -> UNION {ActionItemsAt(i) : i \in 1..m}] :
              \A i \in 1..m : its[i] \in ActionItemsAt(i)} : m \in 1..MaxActionItems}
ActionFamilyInputs ==
    {Pipeline(AbsentAgent, <<>>, items, AbsentPost) : items \in ActionItemSeqs}

\* --- raw token texts: structure errors ---
MaxTextLen == 6
RawAlphabet == {Kw("pipeline"), Kw("stages"), LB, RB}
RawInputs == {RawInput(<<>>)} \cup {RawInput(t) : t \in SeqsUpTo(RawAlphabet, MaxTextLen)}
StructInputs == RawInputs \cup PostInputs \cup {Wrapped(p) : p \in PostInputs}

InitWith(inputs) ==
    /\ input \in inputs
    /\ text = Render(input)
    /\ pc = "start"
    /\ idx = 1
    /\ global_env = EmptyEnv
    /\ default_runs_on = UbuntuLatest
    /\ default_container = NoContainer
    /\ stages_list = <<>>
    /\ pipeline_post = EmptyPost
    /\ workflow_env = EmptyEnv
    /\ jobs = <<>>
    /\ stages_info = <<>>
    /\ last_job_ids = <<>>
    /\ prev_job_id = <<>>
    /\ action_paths = <<>>
    /\ written = <<>>
    /\ result = <<>>

InitGraph == InitWith(GraphInputs)
InitAgent == InitWith(AgentInputs)
InitEnv == InitWith(EnvInputs)
InitPost == InitWith(PostInputs)
InitStruct == InitWith(StructInputs)
InitFallback == InitWith(FallbackInputs)
InitWhen == InitWith(WhenInputs)
InitCred == InitWith(CredInputs)
InitAction == InitWith(ActionFamilyInputs)
InitConj == InitWith(ConjInputs)
InitDeploy == InitWith(DeployInputs)
InitIntegrity == InitWith(IntegrityInputs)
Init == InitWith(GraphInputs \cup PostInputs)

Spec == Init /\ [][Next]_vars
SpecGraph == InitGraph /\ [][Next]_vars
SpecAgent == InitAgent /\ [][Next]_vars
SpecEnv == InitEnv /\ [][Next]_vars
SpecPost == InitPost /\ [][Next]_vars
SpecStruct == InitStruct /\ [][Next]_vars
SpecFallback == InitFallback /\ [][Next]_vars
SpecWhen == InitWhen /\ [][Next]_vars
SpecCred == InitCred /\ [][Next]_vars
SpecAction == InitAction /\ [][Next]_vars
SpecConj == InitConj /\ [][Next]_vars
SpecDeploy == InitDeploy /\ [][Next]_vars
SpecIntegrity == InitIntegrity /\ [][Next]_vars

(***************************************************************************)
(* Direct calls of split_stages.  The body passed is described by its      *)
(* closed top-level stages, in order, and by the text that follows them:   *)
(* nothing, or a stage header whose brace is never closed.                 *)
(***************************************************************************)
StageText(name, inner) == <<StageHdr(name), LB>> \o inner \o <<RB>>
ParallelOf(inner) == <<Kw("parallel"), LB>> \o inner \o <<RB>>

MaxClosedStages == 2
ClosedContents ==
    { <<>>,
      <<Sh("make")>>,
      <<Kw("steps"), LB, Sh("make"), RB>>,
      ParallelOf(StageText("X", <<Sh("make")>>) \o StageText("Y", <<>>)),
      ParallelOf(StageText("X", ParallelOf(StageText("Z", <<Sh("make")>>)))) }
ClosedStages == {[name |-> n, content |-> c] : n \in {"A", "B"}, c \in ClosedContents}

\* what follows `stage('U') {` when that brace is never closed
OpenRests ==
    { <<>>,
      <<Sh("make")>>,
      <<Kw("steps"), LB, Sh("make"), RB>>,
      <<Kw("steps"), LB, Sh("make")>>,
      StageText("V", <<Sh("make")>>),
      ParallelOf(StageText("V", <<>>)) \o <<Sh("make")>> }
OpenTails == {<<StageHdr("U"), LB>> \o r : r \in OpenRests}

StagesBody(closed, tail) == [kind |-> "body", closed |-> closed, tail |-> tail]
RenderBody(b) ==
    Flatten([i \in 1..Len(b.closed) |-> StageText(b.closed[i].name, b.closed[i].content)])
    \o b.tail
SplitInputs ==
    {StagesBody(c, t) : c \in {<<>>} \cup SeqsUpTo(ClosedStages, MaxClosedStages),
                        t \in {<<>>} \cup OpenTails}

InitSplit ==
    /\ input \in SplitInputs
    /\ text = RenderBody(input)
    /\ pc = "split_stages"
    /\ idx = 1
    /\ global_env = EmptyEnv
    /\ default_runs_on = UbuntuLatest
    /\ default_container = NoContainer
    /\ stages_list = <<>>
    /\ pipeline_post = EmptyPost
    /\ workflow_env = EmptyEnv
    /\ jobs = <<>>
    /\ stages_info = <<>>
    /\ last_job_ids = <<>>
    /\ prev_job_id = <<>>
    /\ action_paths = <<>>
    /\ written = <<>>
    /\ result = <<>>

\* res = split_stages(stages_body)
SplitStagesCall ==
    /\ pc = "split_stages"
    /\ stages_list' = split_stages(text)
    /\ pc' = "returned"
    /\ UNCHANGED <<input, text, idx, global_env, default_runs_on, default_container,
                   pipeline_post, workflow_env, jobs, stages_info, last_job_ids,
                   prev_job_id, action_paths, written, result>>

SpecSplit == InitSplit /\ [][SplitStagesCall]_vars

(***************************************************************************)
(* Direct calls of sanitize_credential_name, on credential ids given by    *)
(* their characters.                                                       *)
(***************************************************************************)
MaxCredIdLen == 3
CredIdAlphabet == {"a", "K", "1", "-", ".", "_", "/", " "}
CredIdInputs ==
    {[kind |-> "cred_id", chars |-> cs] : cs \in SeqsUpTo(CredIdAlphabet, MaxCredIdLen)}

InitCredName ==
    /\ input \in CredIdInputs
    /\ text = <<>>
    /\ pc = "sanitize_credential_name"
    /\ idx = 1
    /\ global_env = EmptyEnv
    /\ default_runs_on = UbuntuLatest
    /\ default_container = NoContainer
    /\ stages_list = <<>>
    /\ pipeline_post = EmptyPost
    /\ workflow_env = EmptyEnv
    /\ jobs = <<>>
    /\ stages_info = <<>>
    /\ last_job_ids = <<>>
    /\ prev_job_id = <<>>
    /\ action_paths = <<>>
    /\ written = <<>>
    /\ result = <<>>

\* name = sanitize_credential_name(cred_id)
SanitizeCredentialNameCall ==
    /\ pc = "sanitize_credential_name"
    /\ result' = sanitize_credential_name(input.chars)
    /\ pc' = "returned"
    /\ UNCHANGED <<input, text, idx, stages_list, jobs, stages_info, last_job_ids,
                   prev_job_id, action_paths, written>>
    /\ UNCHANGED parsed

SpecCredName == InitCredName /\ [][SanitizeCredentialNameCall]_vars

(***************************************************************************)
(* Direct calls of gha_job_id, on stage names given by their characters:   *)
(* the stage header pattern accepts every non-empty name without a quote.  *)
(***************************************************************************)
MaxStageNameLen == 3
StageNameAlphabet == {"a", "B", "1", "-", "_", "!", " "}
StageNameInputs ==
    {[kind |-> "stage_name", chars |-> cs] :
        cs \in SeqsUpTo(StageNameAlphabet, MaxStageNameLen)}

InitJobId ==
    /\ input \in StageNameInputs
    /\ text = <<>>
    /\ pc = "gha_job_id"
    /\ idx = 1
    /\ global_env = EmptyEnv
    /\ default_runs_on = UbuntuLatest
    /\ default_container = NoContainer
    /\ stages_list = <<>>
    /\ pipeline_post = EmptyPost
    /\ workflow_env = EmptyEnv
    /\ jobs = <<>>
    /\ stages_info = <<>>
    /\ last_job_ids = <<>>
    /\ prev_job_id = <<>>
    /\ action_paths = <<>>
    /\ written = <<>>
    /\ result = <<>>

\* job_id = gha_job_id(stage_name)
GhaJobIdCall ==
    /\ pc = "gha_job_id"
    /\ result' = sanitize_chars(input.chars)
    /\ pc' = "returned"
    /\ UNCHANGED <<input, text, idx, stages_list, jobs, stages_info, last_job_ids,
                   prev_job_id, action_paths, written>>
    /\ UNCHANGED parsed

SpecJobId == InitJobId /\ [][GhaJobIdCall]_vars

(***************************************************************************)
(* Properties                                                              *)
(***************************************************************************)
Items == input.items
StagesOfItem(it) == IF it.kind = "plain" THEN <<it.st>> ELSE it.members
IdsOfItem(it) == [i \in 1..Len(StagesOfItem(it)) |-> gha_job_id(StagesOfItem(it)[i].name)]
IdSetOfItem(it) == {IdsOfItem(it)[i] : i \in 1..Len(IdsOfItem(it))}
ProcessedIds(n) == UNION {IdSetOfItem(Items[k]) : k \in 1..n}
NeedsIds(def) == {def.needs.ids[i] : i \in 1..Len(def.needs.ids)}

\* the stage loop has just finished item idx - 1 of a described pipeline
JustProcessed ==
    input.kind = "pipeline" /\ pc = "stages" /\ idx > 1 /\ idx - 1 <= Len(Items)
LastItem == Items[idx - 1]

\* C1: fork/join. After a parallel group is processed, every member's job has
\* needs equal to the id of the plain stage before the group (no needs when the
\* group comes first) and the keys of the jobs map are the ids of the stages and
\* members processed so far, the enclosing stage adding none; after the plain
\* stage that follows a group is processed, its needs is the list of the ids of
\* all members of the group.
C1_ForkJoin ==
    JustProcessed =>
      LET i == idx - 1
      IN  /\ (LastItem.kind = "parallel" /\ (i = 1 \/ Items[i - 1].kind = "plain")) =>
                \A m \in IdSetOfItem(LastItem) :
                    /\ HasJob(jobs, m)
                    /\ JobOf(jobs, m).needs =
                         IF i = 1 THEN NoNeeds
                         ELSE NeedsStr(gha_job_id(Items[i - 1].st.name))
          /\ LastItem.kind = "parallel" => JobIdSet(jobs) = ProcessedIds(i)
          /\ (LastItem.kind = "plain" /\ i > 1 /\ Items[i - 1].kind = "parallel") =>
                /\ HasJob(jobs, gha_job_id(LastItem.st.name))
                /\ JobOf(jobs, gha_job_id(LastItem.st.name)).needs =
                     NeedsList(IdsOfItem(Items[i - 1]))

C1_Witness ==
    /\ pc = "done"
    /\ Items = <<PlainItem(Bare("C")), ParallelItem("G", <<Bare("A"), Bare("B")>>),
                 PlainItem(Bare("D"))>>
    /\ JobKeys(jobs) = <<<<"c">>, <<"a">>, <<"b">>, <<"d">>>>
    /\ JobOf(jobs, <<"a">>).needs = NeedsStr(<<"c">>)
    /\ JobOf(jobs, <<"b">>).needs = NeedsStr(<<"c">>)
    /\ JobOf(jobs, <<"d">>).needs = NeedsList(<<<<"a">>, <<"b">>>>)

AllPlain == \A k \in 1..Len(Items) : Items[k].kind = "plain"

\* C2: sequential chain. In a pipeline of plain stages only, the job written for
\* the first stage has no needs, the job written for every later stage has needs
\* equal to the job id of the stage just before it, and a single-stage pipeline
\* returns exactly one job, which depends on nothing.
C2_SequentialChain ==
    (input.kind = "pipeline" /\ AllPlain) =>
      /\ JustProcessed =>
            /\ HasJob(jobs, gha_job_id(LastItem.st.name))
            /\ JobOf(jobs, gha_job_id(LastItem.st.name)).needs =
                 IF idx - 1 = 1 THEN NoNeeds
                 ELSE NeedsStr(gha_job_id(Items[idx - 2].st.name))
      /\ (pc = "done" /\ Len(Items) = 1) =>
            /\ Len(jobs) = 1
            /\ jobs[1].def.needs = NoNeeds

C2_Witness ==
    /\ pc = "done"
    /\ Items = <<PlainItem(Bare("A")), PlainItem(Bare("B")), PlainItem(Bare("C"))>>
    /\ JobOf(jobs, <<"a">>).needs = NoNeeds
    /\ JobOf(jobs, <<"b">>).needs = NeedsStr(<<"a">>)
    /\ JobOf(jobs, <<"c">>).needs = NeedsStr(<<"b">>)

NeedsOf(js, id) == IF HasJob(js, id) THEN NeedsIds(JobOf(js, id)) ELSE {}

RECURSIVE ReachN(_, _, _)
\* the ids reachable from S through at most n further needs edges
ReachN(js, S, n) ==
    IF n = 0 THEN S ELSE ReachN(js, S \cup UNION {NeedsOf(js, x) : x \in S}, n - 1)

Cyclic(js) == \E id \in JobIdSet(js) : id \in ReachN(js, NeedsOf(js, id), Len(js))

\* C3: the needs relation of the returned jobs map has no cycle, whatever the
\* stage names.
C3_Acyclic == pc = "done" => ~Cyclic(jobs)

RECURSIVE StageCount(_)
StageCount(items) ==
    IF items = <<>> THEN 0 ELSE Len(StagesOfItem(Head(items))) + StageCount(Tail(items))

\* C4: the returned jobs map holds one job per plain stage and per parallel
\* member, the pipeline-post job aside.
C4_OneJobPerStage ==
    (input.kind = "pipeline" /\ pc = "done") =>
        Cardinality(JobIdSet(jobs) \ {PipelinePostId}) = StageCount(Items)

\* C5: when a parallel group directly follows a parallel group, the needs of
\* every member of the second group covers all member ids of the first group,
\* and all members of the second group have the same needs.
C5_GroupAfterGroup ==
    (JustProcessed /\ idx - 1 > 1 /\ LastItem.kind = "parallel"
       /\ Items[idx - 2].kind = "parallel") =>
        \A m \in IdSetOfItem(LastItem) :
            /\ IdSetOfItem(Items[idx - 2]) \subseteq NeedsOf(jobs, m)
            /\ \A n \in IdSetOfItem(LastItem) :
                   JobOf(jobs, m).needs = JobOf(jobs, n).needs

\* --- structure of the text, by counting braces ---
Opens(t, a, b) == Cardinality({j \in a..b : IsLB(t[j])})
Closes(t, a, b) == Cardinality({j \in a..b : IsRB(t[j])})

\* the brace at position e closes the brace opened at position o
ClosesAt(t, o, e) ==
    /\ e > o /\ e <= Len(t) /\ IsRB(t[e])
    /\ Opens(t, o + 1, e - 1) = Closes(t, o + 1, e - 1)
    /\ \A j \in (o + 1)..(e - 1) : Opens(t, o + 1, j) >= Closes(t, o + 1, j)

\* positions of keyword kw followed by an opening brace
Occurrences(t, kw) == {p \in 1..(Len(t) - 1) : IsKw(t[p], kw) /\ IsLB(t[p + 1])}
BalancedAt(t, p) == \E e \in 1..Len(t) : ClosesAt(t, p + 1, e)
BodyAt(t, p) == SubSeq(t, p + 2, (CHOOSE e \in 1..Len(t) : ClosesAt(t, p + 1, e)) - 1)

\* the block at position p, when balanced, contains a balanced stages block
HoldsStages(t, p) ==
    /\ BalancedAt(t, p)
    /\ Occurrences(BodyAt(t, p), "stages") # {}
    /\ BalancedAt(BodyAt(t, p), Min(Occurrences(BodyAt(t, p), "stages")))

\* the first `pipeline {` of the text, at whatever depth
WellStructured(t) ==
    /\ Occurrences(t, "pipeline") # {}
    /\ HoldsStages(t, Min(Occurrences(t, "pipeline")))

\* `pipeline {` occurrences outside every other block
TopLevel(t, kw) == {p \in Occurrences(t, kw) : Opens(t, 1, p - 1) = Closes(t, 1, p - 1)}
TopLevelWellStructured(t) ==
    /\ \E p \in TopLevel(t, "pipeline") : BalancedAt(t, p)
    /\ HoldsStages(t, Min({p \in TopLevel(t, "pipeline") : BalancedAt(t, p)}))

NothingWritten == jobs = <<>> /\ written = <<>> /\ action_paths = <<>>

\* C6 (amended): the conversion raises, with no workflow and no composite action
\* written, exactly when the first `pipeline {` of the text, at whatever
\* nesting depth, does not open a balanced block or that block contains no
\* balanced `stages { ... }` block; in every other case it does not raise and
\* returns one action entry per converted stage.
C6_StructuralErrors ==
    /\ pc # "start" => ((pc = "raised") <=> ~WellStructured(text))
    /\ pc = "raised" => NothingWritten
    /\ pc = "done" => Len(action_paths) = Len(stages_info)

C6_Witness ==
    /\ pc = "raised"
    /\ text = <<Kw("pipeline"), LB, Kw("stages"), LB, RB>>
    /\ NothingWritten

\* C6 as stated: the conversion raises exactly when the text has no balanced
\* top-level `pipeline { ... }` block or that block contains no balanced
\* `stages { ... }` block.
C6_TopLevelOnly ==
    /\ pc # "start" => ((pc = "raised") <=> ~TopLevelWellStructured(text))
    /\ pc = "raised" => NothingWritten

\* the declared environment of a stage as a dict, later lines winning
DeclEnv(pairs) ==
    [k \in {pairs[i][1] : i \in 1..Len(pairs)} |->
        pairs[CHOOSE i \in 1..Len(pairs) :
                 /\ pairs[i][1] = k
                 /\ \A j \in (i + 1)..Len(pairs) : pairs[j][1] # k][2]]

\* C7: environment filtering. For every stage just processed and every key k of
\* its environment block, the job has an env entry for k iff k is absent from
\* the workflow-level env or its value there differs from the stage's; the
\* emitted value is the stage's; the job has no other entry, and has an env
\* field only when an entry is left.
C7_EnvFiltering ==
    JustProcessed =>
      \A j \in 1..Len(StagesOfItem(LastItem)) :
        LET st == StagesOfItem(LastItem)[j]
            decl == DeclEnv(st.env)
            job == JobOf(jobs, gha_job_id(st.name))
        IN  /\ HasJob(jobs, gha_job_id(st.name))
            /\ \A k \in DOMAIN decl :
                 /\ k \in DOMAIN job.env <=>
                      (k \notin DOMAIN workflow_env \/ workflow_env[k] # decl[k])
                 /\ k \in DOMAIN job.env => job.env[k] = decl[k]
            /\ DOMAIN job.env \subseteq DOMAIN decl
            /\ job.has_env <=> DOMAIN job.env # {}

C7_Witness ==
    /\ pc = "done"
    /\ input.env = <<<<"K1", "v1">>, <<"K2", "v2">>>>
    /\ Len(Items) = 2
    /\ Items[1] = PlainItem(StageDecl("S1", AbsentAgent,
                                      <<<<"K1", "v2">>, <<"K2", "v2">>>>, AbsentPost))
    /\ Items[2] = PlainItem(StageDecl("S2", AbsentAgent, <<<<"K1", "v1">>>>, AbsentPost))
    /\ workflow_env = DeclEnv(input.env)
    /\ JobOf(jobs, <<"s", "1">>).has_env
    /\ DOMAIN JobOf(jobs, <<"s", "1">>).env = {"K1"}
    /\ JobOf(jobs, <<"s", "1">>).env["K1"] = "v2"
    /\ ~JobOf(jobs, <<"s", "2">>).has_env

\* C8: when the pipeline declares no pipeline-level agent, the job of every
\* stage that declares no agent runs on ubuntu-latest with no container,
\* whatever the agents of the other stages.
C8_GlobalDefault ==
    (JustProcessed /\ input.agent.form = "absent") =>
      \A j \in 1..Len(StagesOfItem(LastItem)) :
        LET st == StagesOfItem(LastItem)[j]
            job == JobOf(jobs, gha_job_id(st.name))
        IN  st.agent.form = "absent" =>
              job.runs_on = UbuntuLatest /\ job.container = NoContainer

\* C9: the job of a stage with its own agent takes runs-on and container from
\* that agent alone (label: mapped runner, no container; docker: ubuntu-latest
\* and a container of that image and args; any: ubuntu-latest, no container);
\* the job of a stage without agent takes the global default runner and
\* container.
C9_StageAgent ==
    JustProcessed =>
      \A j \in 1..Len(StagesOfItem(LastItem)) :
        LET st == StagesOfItem(LastItem)[j]
            job == JobOf(jobs, gha_job_id(st.name))
        IN  CASE st.agent.form = "absent" ->
                   job.runs_on = default_runs_on /\ job.container = default_container
              [] st.agent.form = "label" ->
                   /\ job.runs_on = map_label_to_runs_on(st.agent.label)
                   /\ job.container = NoContainer
              [] st.agent.form = "docker" ->
                   /\ job.runs_on = UbuntuLatest
                   /\ job.container = [image |-> st.agent.image, options |-> st.agent.args]
              [] OTHER ->
                   job.runs_on = UbuntuLatest /\ job.container = NoContainer

\* C10: the returned jobs map has a pipeline-post job iff the pipeline has a
\* pipeline-level post block with at least one lifecycle condition; when
\* present its condition is always() and its needs lists every other job.
C10_PipelinePostJob ==
    (input.kind = "pipeline" /\ pc = "done") =>
      /\ HasJob(jobs, PipelinePostId) <=>
           (input.post.present /\ Len(input.post.conds) >= 1)
      /\ HasJob(jobs, PipelinePostId) =>
           /\ JobOf(jobs, PipelinePostId).if_cond = <<Cond("always", "", "")>>
           /\ JobOf(jobs, PipelinePostId).needs.kind = "list"
           /\ NeedsIds(JobOf(jobs, PipelinePostId)) = JobIdSet(jobs) \ {PipelinePostId}

\* every stage of the described pipeline, plain stages and parallel members
InputStages ==
    UNION {{StagesOfItem(Items[k])[j] : j \in 1..Len(StagesOfItem(Items[k]))} :
             k \in 1..Len(Items)}

\* the action references of a job: its `uses` steps other than the checkout
ActionStepRefs(def) ==
    {def.steps[i].ref : i \in {j \in 1..Len(def.steps) :
                                 /\ def.steps[j].kind = "uses"
                                 /\ def.steps[j] # CheckoutStep}}

\* C11: in the returned workflow, the job created for a stage has exactly one
\* composite-action step and it references the action written for that same
\* stage, ./.github/actions/<sanitized name of the stage>, repeated names
\* included.
C11_OwnAction ==
    (input.kind = "pipeline" /\ pc = "done") =>
      \A st \in InputStages :
        /\ HasJob(jobs, gha_job_id(st.name))
        /\ ActionStepRefs(JobOf(jobs, gha_job_id(st.name))) = {action_dir_name(st.name)}

\* --- stages whose processing raised ---
HasBoom(st) == \E i \in 1..Len(st.extra) : st.extra[i].k = "boom"
FailsItem(it) == \E j \in 1..Len(StagesOfItem(it)) : HasBoom(StagesOfItem(it)[j])
FailingItems == {k \in 1..Len(Items) : FailsItem(Items[k])}
FallbackId(it) == gha_job_id(it.st.name)

\* C12: in the returned workflow, the job of every stage whose processing
\* raised starts with the checkout step and has the manual-conversion
\* diagnostic step after it.
C12_FallbackDiagnostic ==
    (input.kind = "pipeline" /\ pc = "done") =>
      \A k \in FailingItems :
        LET job == JobOf(jobs, FallbackId(Items[k]))
        IN  /\ HasJob(jobs, FallbackId(Items[k]))
            /\ job.steps # <<>>
            /\ job.steps[1] = CheckoutStep
            /\ \E i \in 2..Len(job.steps) : job.steps[i] = ManualStep

\* the names a pipeline item gives to jobs and actions: the stage itself and,
\* for a parallel stage, its members
NamesOfItem(it) ==
    {it.st.name} \cup {it.members[j].name : j \in 1..Len(it.members)}

\* the dependencies the cursor gives after item k: none before the first item
CursorNeeds(k) ==
    IF k = 0 THEN NoNeeds
    ELSE IF Items[k].kind = "parallel" /\ ~FailsItem(Items[k])
         THEN NeedsList(IdsOfItem(Items[k]))
    ELSE NeedsStr(FallbackId(Items[k]))

\* C13: a stage whose processing raises, at whatever point of its try block,
\* contributes exactly one job, the fallback, and exactly one action record;
\* the fallback job takes the dependencies of the cursor; and every stage
\* that does not raise keeps the action step of its own action.
C13_FailureIsolation ==
    (input.kind = "pipeline" /\ pc = "done") =>
      /\ \A k \in FailingItems :
           /\ {id \in JobIdSet(jobs) :
                 \E n \in NamesOfItem(Items[k]) : id = gha_job_id(n)} = {FallbackId(Items[k])}
           /\ Cardinality({i \in 1..Len(action_paths) :
                             action_paths[i].name \in NamesOfItem(Items[k])}) = 1
           /\ JobOf(jobs, FallbackId(Items[k])).needs = CursorNeeds(k - 1)
      /\ \A k \in (1..Len(Items)) \ FailingItems :
           \A j \in 1..Len(StagesOfItem(Items[k])) :
             LET st == StagesOfItem(Items[k])[j]
             IN  /\ HasJob(jobs, gha_job_id(st.name))
                 /\ ActionStepRefs(JobOf(jobs, gha_job_id(st.name))) =
                      {action_dir_name(st.name)}

\* --- when blocks of the described stages ---
IsCombinator(tok) == IsKw(tok, "anyOf") \/ IsKw(tok, "allOf")
CombinatorAt(st) == {i \in 1..Len(st.extra) : IsCombinator(st.extra[i])}
\* the conditions written directly in the when block, outside any combinator
TopPart(st) ==
    IF CombinatorAt(st) = {} THEN st.extra
    ELSE SubSeq(st.extra, 1, Min(CombinatorAt(st)) - 1)
OpaqueExpression(tok) == tok.k = "return" /\ tok.b # "params"
Untranslated(st) ==
    \/ CombinatorAt(st) # {}
    \/ \E i \in 1..Len(TopPart(st)) : OpaqueExpression(TopPart(st)[i])
IsPlaceholder(c) == c.c = "true_manual"

\* the translation of one directly written condition
TopCond(tok) ==
    CASE tok.k = "arg" /\ tok.a = "branch" ->
            IF tok.b \in {"master", "main"} THEN Cond("ref_main_or_master", "", "")
            ELSE Cond("ref_eq", tok.b, "")
      [] tok.k = "return" ->
            IF tok.b = "params" THEN Cond("dispatch_and_inputs", tok.a, "")
            ELSE Cond("true_manual", tok.a, "")
      [] tok.k = "envcond" ->
            IF tok.b # "" THEN Cond("env_eq", tok.a, tok.b)
            ELSE Cond("env_nonempty", tok.a, "")
      [] IsKw(tok, "changeRequest") -> Cond("pull_request", "", "")
      [] IsKw(tok, "buildingTag") -> Cond("tag", "", "")
      [] OTHER -> Cond("none", "", "")
TopConds(st) == {TopCond(TopPart(st)[i]) : i \in 1..Len(TopPart(st))}

\* C14: the job of a stage whose when block holds an untranslated construct
\* (an expression that does not reference params, an anyOf or allOf
\* combinator) has an `if` with an always-true placeholder for manual review,
\* and every other conjunct of that `if` translates a condition written
\* directly in the when block: the untranslated construct adds no restriction.
C14_UnrecognizedConditions ==
    JustProcessed =>
      \A j \in 1..Len(StagesOfItem(LastItem)) :
        LET st == StagesOfItem(LastItem)[j]
            cond == JobOf(jobs, gha_job_id(st.name)).if_cond
        IN  Untranslated(st) =>
              /\ \E i \in 1..Len(cond) : IsPlaceholder(cond[i])
              /\ \A i \in 1..Len(cond) : IsPlaceholder(cond[i]) \/ cond[i] \in TopConds(st)

\* the written action of stage record i
ActionOf(i) == written[i].def

\* every output the save step can produce from the stage records
SaveOutcomes ==
    {<<save_enhanced_composite_actions(stages_info, u),
       [i \in 1..Len(stages_info) |-> ActionFile(stages_info[i], u[i])]>> :
        u \in UsageOrders(stages_info)}

\* C15: determinism. The output is a function of the input text: once the
\* actions are saved, their metadata (required_secrets in order) and their
\* files (declared inputs in order) are the only ones the save step can produce
\* from the stage records, and the steps grafted on each job (the keys of the
\* `with` block in order) are the only ones that can be created for it,
\* whatever order the internal credential set is iterated in.
C15_Determinism ==
    /\ pc \in {"update", "post", "done"} => SaveOutcomes = {<<action_paths, written>>}
    /\ pc = "post" =>
          \A u \in UsageOrders(stages_info) :
            \A i \in 1..Len(jobs) :
              i <= Len(stages_info) =>
                jobs[i].def.steps = create_enhanced_job_steps(ActionMeta(stages_info[i], u[i]))

UsesDockerHubBinding(stage_body) ==
    \E i \in 1..Len(stage_body) :
        /\ stage_body[i].k = "cred"
        /\ stage_body[i].a \in {"usernamePassword", "paren"}
        /\ stage_body[i].b = "docker-hub"

\* the names of the declared inputs of an action that derive from credential id
CredentialInputs(def, id) ==
    {def.inputs[i].name : i \in {j \in 1..Len(def.inputs) : def.inputs[j].cred = id}}

\* C16: a stage that binds the usernamePassword credential "docker-hub" with
\* withCredentials gets an action whose inputs derived from that credential are
\* exactly docker-hub-username and docker-hub-password, no third one.
C16_UsernamePasswordInputs ==
    pc \in {"update", "post", "done"} =>
      \A i \in 1..Len(stages_info) :
        UsesDockerHubBinding(stages_info[i].body) =>
          CredentialInputs(ActionOf(i), "docker-hub")
            = {cred_name("docker-hub", "-username"), cred_name("docker-hub", "-password")}

\* the names of the steps convert_post_actions_to_steps produces
PostStepNames ==
    {"Upload artifacts", "Publish test results", "Upload coverage reports",
     "Send email notification", "Slack notification", "Cleanup workspace", "Post command",
     "Post script (MANUAL CONVERSION REQUIRED)"}
IsPostStep(step) == step.name \in PostStepNames

\* the `if` expression the lifecycle conditions are said to map to
ClaimedIf ==
    [c \in {"always", "success", "failure", "unstable", "cleanup", "aborted"} |->
        CASE c = "always" -> "always()"
          [] c = "success" -> "success()"
          [] c = "failure" -> "failure()"
          [] c = "unstable" -> "success() || failure()"
          [] c = "cleanup" -> "always()"
          [] c = "aborted" -> "cancelled()"]

\* C17: post-action conditioning. In every written action, each step produced
\* for a lifecycle condition of the stage's post block carries an `if`, and it
\* is the expression that condition maps to: always() for always and cleanup,
\* success() for success, failure() for failure, success() || failure() for
\* unstable, cancelled() for aborted.
C17_PostConditions ==
    pc \in {"update", "post", "done"} =>
      \A i \in 1..Len(written) :
        \A k \in 1..Len(ActionOf(i).steps) :
          LET step == ActionOf(i).steps[k]
          IN  IsPostStep(step) =>
                /\ step.cond # ""
                /\ step.ref[1] \in DOMAIN ClaimedIf
                /\ step.cond = ClaimedIf[step.ref[1]]

\* an action whose post steps cover unstable and aborted has been written
C17_Witness ==
    /\ pc = "done"
    /\ \E i \in 1..Len(written) :
         /\ \E k \in 1..Len(ActionOf(i).steps) :
              IsPostStep(ActionOf(i).steps[k]) /\ ActionOf(i).steps[k].ref[1] = "unstable"
         /\ \E k \in 1..Len(ActionOf(i).steps) :
              IsPostStep(ActionOf(i).steps[k]) /\ ActionOf(i).steps[k].ref[1] = "aborted"

\* the category of a step of an action, 1 to 10 in the order of the claim
Category(step) ==
    CASE step.name \in {"Set up JDK", "Cache Maven packages", "Set up Node.js"} -> 1
      [] step.name \in {"Checkout code", "Clone repository"} -> 2
      [] step.name \in {"Setup file credential", "Run with credentials"} -> 3
      [] step.name \in {"SonarQube Scan", "Run SonarQube analysis"} -> 4
      [] step.name \in {"Login to DockerHub", "Build Docker image", "Push Docker image"} -> 5
      [] step.name = "Run command" -> 6
      [] step.name = "Run Kubernetes command" -> 7
      [] step.name = "Script block (REQUIRES MANUAL CONVERSION)" -> 8
      [] step.name = "(REQUIRES MANUAL CONVERSION)" -> 9
      [] IsPostStep(step) -> 10
      [] OTHER -> 0

\* the text of a command token as the steps carry it
CmdText(t) == IF t.k = "echo" THEN "echo " \o t.a ELSE t.a

\* token t of the stage body is the construct the step was made from
MadeFrom(step, t) ==
    CASE step.name \in {"Run command", "Run Kubernetes command", "Build Docker image",
                        "Push Docker image", "Run SonarQube analysis"} ->
            IsCmd(t) /\ CmdText(t) = step.ref[1]
      [] step.name = "Clone repository" -> IsCmd(t) /\ CmdText(t) = step.ref[2]
      [] step.name = "Checkout code" ->
            IF step.ref[2] = "" THEN t.k = "scm" ELSE t.k = "git" /\ t.a = step.ref[2]
      [] step.name = "(REQUIRES MANUAL CONVERSION)" -> t.k = "eff" /\ t.a = step.ref[1]
      [] OTHER -> FALSE

\* where the construct of the step first appears in the stage body, 0 if the
\* step has no construct of its own
SourcePos(stage_body, step) ==
    IF \E p \in 1..Len(stage_body) : MadeFrom(step, stage_body[p])
    THEN Min({p \in 1..Len(stage_body) : MadeFrom(step, stage_body[p])}) ELSE 0

CategoryOrder(steps) ==
    \A k, l \in 1..Len(steps) : k < l => Category(steps[k]) <= Category(steps[l])

SourceOrderWithinCategory(stage_body, steps) ==
    \A k, l \in 1..Len(steps) :
        (/\ k < l
         /\ Category(steps[k]) = Category(steps[l])
         /\ SourcePos(stage_body, steps[k]) > 0
         /\ SourcePos(stage_body, steps[l]) > 0)
        => SourcePos(stage_body, steps[k]) <= SourcePos(stage_body, steps[l])

\* C18: step emission order. The steps of every written action come category
\* after category (tool setup, checkout, credential staging, quality scan,
\* container build/push, generic commands, kubectl/helm, script placeholders,
\* plugin placeholders, post steps), and inside one category they are in the
\* order in which their constructs appear in the stage body.
C18_EmissionOrder ==
    pc \in {"update", "post", "done"} =>
      \A i \in 1..Len(written) :
        /\ \A k \in 1..Len(ActionOf(i).steps) : Category(ActionOf(i).steps[k]) > 0
        /\ CategoryOrder(ActionOf(i).steps)
        /\ SourceOrderWithinCategory(stages_info[i].body, ActionOf(i).steps)

\* the steps that run a command on behalf of a git checkout, a sonar scan or
\* a docker build/push, and the command of the stage body each one runs
IsSpecialized(step) ==
    step.name \in {"Clone repository", "Run SonarQube analysis", "Build Docker image",
                   "Push Docker image"}
SourceCommand(step) == IF step.name = "Clone repository" THEN step.ref[2] ELSE step.ref[1]

\* C19: no double execution. In every written action, a command that a
\* specialized step runs (git checkout, sonar scan, docker build or push) is
\* not also the command of a generic "Run command" step.
C19_NoDoubleExecution ==
    pc \in {"update", "post", "done"} =>
      \A i \in 1..Len(written) :
        \A k, l \in 1..Len(ActionOf(i).steps) :
          (ActionOf(i).steps[k].name = "Run command" /\ IsSpecialized(ActionOf(i).steps[l]))
          => ActionOf(i).steps[k].ref[1] # SourceCommand(ActionOf(i).steps[l])

\* C20: block span balance. Whenever find_block returns a span (s, e) for a
\* keyword, text[s-1] is the opening brace that follows the first occurrence
\* of the keyword followed by a brace, text[e] is the closing brace that
\* matches it, and the brace depth counted over text[s:e] starts at zero,
\* never goes negative and ends at zero; it returns not-found exactly when no
\* brace follows the keyword or the depth never returns to zero.
C20_BlockSpan ==
    \A kw \in {"pipeline", "stages"} :
        LET sp == find_block(text, kw)
            occ == Occurrences(text, kw)
        IN  IF sp # NotFound
            THEN /\ occ # {}
                 /\ sp[1] = Min(occ) + 1
                 /\ IsLB(text[sp[1]])
                 /\ sp[2] < Len(text) /\ IsRB(text[sp[2] + 1])
                 /\ \A j \in (sp[1] + 1)..sp[2] :
                       Opens(text, sp[1] + 1, j) >= Closes(text, sp[1] + 1, j)
                 /\ Opens(text, sp[1] + 1, sp[2]) = Closes(text, sp[1] + 1, sp[2])
            ELSE occ = {} \/ ~BalancedAt(text, Min(occ))

\* the structure was parsed from a text whose stages block holds nested blocks
\* and whose pipeline block is itself inside another block
C20_Witness ==
    /\ pc = "done"
    /\ find_block(text, "stages") # NotFound
    /\ Opens(text, find_block(text, "stages")[1] + 1, find_block(text, "stages")[2]) > 0
    /\ Min(Occurrences(text, "pipeline")) > 1


\* C21: unterminated stage. For a stages body made of n properly closed
\* top-level stages followed by a stage header whose opening brace is never
\* closed, split_stages returns exactly those n stages, in source order, and
\* nothing from the unterminated stage or after it.
C21_UnterminatedStage ==
    (pc = "returned" /\ input.tail # <<>>) => stages_list = input.closed

\* two closed stages, one of them holding nested stages, were returned from a
\* body whose last header is never closed although a stage inside it is
C21_Witness ==
    /\ pc = "returned"
    /\ Len(input.closed) = 2
    /\ HasTok(input.closed[1].content, "stage", "X")
    /\ HasTok(input.tail, "stage", "V")
    /\ stages_list = input.closed

\* C22: credential name transform. For every source id the result of
\* sanitize_credential_name contains only uppercase letters, digits and
\* underscores: letters are uppercased and every non-alphanumeric character
\* is replaced by an underscore.
UpperLetters == DOMAIN LowerCaseOf
LowerLetters == {LowerCaseOf[u] : u \in DOMAIN LowerCaseOf}
Digits == {"0", "1", "2", "3", "4", "5", "6", "7", "8", "9"}
C22_CredentialName ==
    pc = "returned" =>
        /\ Len(result) = Len(input.chars)
        /\ \A i \in 1..Len(result) :
              /\ result[i] \in UpperLetters \cup Digits \cup {"_"}
              /\ input.chars[i] \in LowerLetters => LowerCaseOf[result[i]] = input.chars[i]
              /\ input.chars[i] \in UpperLetters \cup Digits => result[i] = input.chars[i]
              /\ input.chars[i] \notin UpperLetters \cup LowerLetters \cup Digits
                    => result[i] = "_"

\* --- the `if` expression of a job, read with the target's precedence ---
\* the expression holds no parentheses: it is a disjunction, at each "||", of
\* conjunctions of operands
IsOperand(x) == x \notin {"&&", "||"}
Operands(e) == {e[i] : i \in {j \in 1..Len(e) : IsOperand(e[j])}}
Disjuncts(e) ==
    {s \in 1..Len(e) : (s = 1 \/ e[s - 1] = "||") /\ IsOperand(e[s])}
DisjunctEnd(e, s) ==
    Min({i \in s..(Len(e) + 1) : i = Len(e) + 1 \/ e[i] = "||"}) - 1
\* ctx: the operands that are true in the context the job is evaluated in
Evaluates(e, ctx) ==
    \E s \in Disjuncts(e) :
        \A i \in s..DisjunctEnd(e, s) : IsOperand(e[i]) => e[i] \in ctx

\* what one predicate of the when block requires of the context
PredicateHolds(c, ctx) ==
    CASE c.c = "ref_main_or_master" ->
            \/ "github.ref == 'refs/heads/main'" \in ctx
            \/ "github.ref == 'refs/heads/master'" \in ctx
      [] c.c = "dispatch_and_inputs" ->
            /\ "github.event_name == 'workflow_dispatch'" \in ctx
            /\ Evaluates(param_expr[c.x], ctx)
      [] OTHER -> ConditionText(c)[1] \in ctx

StageJobConditions ==
    {JobOf(jobs, id).if_cond : id \in JobIdSet(jobs) \ {PipelinePostId}}

\* C23: conjunctive conditions. The `if` expression rendered for a when block
\* with several recognized predicates is true, with && binding tighter than
\* ||, only in contexts where every one of those predicates holds.
C23_Conjunctive ==
    pc = "done" =>
        \A cond \in StageJobConditions :
            \A ctx \in SUBSET Operands(JoinAnd(cond)) :
                Evaluates(JoinAnd(cond), ctx)
                    => \A i \in 1..Len(cond) : PredicateHolds(cond[i], ctx)

\* the names of the stages and parallel members of the input that have a job
JobNames ==
    {n \in UNION {{Items[i].st.name} \cup {Items[i].members[j].name :
                                             j \in 1..Len(Items[i].members)} :
                    i \in 1..Len(Items)} : HasJob(jobs, gha_job_id(n))}
DeploymentNames == {"Deploy", "release", "Publish", "RELEASE"}

\* C24: deployment concurrency. Every job created for a stage or parallel
\* member whose name contains deploy, release or publish (case-insensitive)
\* carries a concurrency group keyed by the stage name with cancel-in-progress
\* false, and every stage job carries the same timeout-minutes value.
C24_DeploymentConcurrency ==
    pc = "done" =>
        /\ \A n \in JobNames \cap DeploymentNames :
              /\ JobOf(jobs, gha_job_id(n)).concurrency.group = Lower(NameText[n])
              /\ ~JobOf(jobs, gha_job_id(n)).concurrency.cancel_in_progress
        /\ \A n, m \in JobNames :
              JobOf(jobs, gha_job_id(n)).timeout = JobOf(jobs, gha_job_id(m)).timeout

\* C25: gha_job_id converts every stage name accepted by the stage header
\* pattern into a valid job id: a non-empty string that starts with a letter
\* or an underscore and contains only letters, digits, hyphens and underscores.
C25_ValidJobId ==
    pc = "returned" =>
        /\ result # <<>>
        /\ result[1] \in UpperLetters \cup LowerLetters \cup {"_"}
        /\ \A i \in 1..Len(result) :
              result[i] \in UpperLetters \cup LowerLetters \cup Digits \cup {"-", "_"}

\* C26: dependency referential integrity. After any sequence of plain stages,
\* parallel groups and failed stages, every job id named in any job's needs
\* (the pipeline-post job's needs included) is a key of the jobs map.
C26_NeedsAreJobs ==
    \A id \in JobIdSet(jobs) : NeedsOf(jobs, id) \subseteq JobIdSet(jobs)

\* the pipeline-post job was added after a group one of whose members failed
\* and a stage that follows it, and it names every other job
C26_Witness ==
    /\ pc = "done"
    /\ HasJob(jobs, PipelinePostId)
    /\ NeedsOf(jobs, PipelinePostId) = JobIdSet(jobs) \ {PipelinePostId}
    /\ Len(Items) = 3
    /\ Items[1].kind = "parallel" /\ FailsItem(Items[1])
    /\ \E id \in JobIdSet(jobs) \ {PipelinePostId} : Cardinality(NeedsOf(jobs, id)) = 1

\* --- stage headers of a text, by counting braces ---
StageHeaders(t) == {p \in 1..(Len(t) - 1) : t[p].k = "stage" /\ IsLB(t[p + 1])}
Depth(t, p) == Opens(t, 1, p - 1) - Closes(t, 1, p - 1)
HeadersAtDepth(t, d) == {p \in StageHeaders(t) : Depth(t, p) = d}
\* the i-th position of a set of positions
NthOf(S, i) == CHOOSE p \in S : Cardinality({q \in S : q < p}) = i - 1
CloseOf(t, p) == CHOOSE e \in 1..Len(t) : ClosesAt(t, p + 1, e)
\* the stage at header p, as split_stages returns a stage
StageAt(t, p) == [name |-> t[p].a, content |-> SubSeq(t, p + 2, CloseOf(t, p) - 1)]
StagesAtDepth(t, d) ==
    [i \in 1..Cardinality(HeadersAtDepth(t, d)) |-> StageAt(t, NthOf(HeadersAtDepth(t, d), i))]

\* C27: top-level decomposition. For a well-formed stages body, split_stages
\* returns exactly its top-level stages in source order; a stage nested inside
\* another stage's body (for example inside a parallel block) is never returned
\* as a sibling of its parent, and its text lies entirely inside the parent's
\* content. extract_parallel returns the stages directly inside the parallel
\* block of a returned stage, and no stage nested deeper.
C27_TopLevelStages ==
    (pc = "returned" /\ input.kind = "body" /\ input.tail = <<>>) =>
        /\ stages_list = StagesAtDepth(text, 0)
        /\ \A q \in StageHeaders(text) \ HeadersAtDepth(text, 0) :
              \E i \in 1..Len(stages_list) :
                 LET p == NthOf(HeadersAtDepth(text, 0), i)
                 IN  /\ p + 1 < q /\ CloseOf(text, q) < CloseOf(text, p)
                     /\ SubSeq(stages_list[i].content, q - (p + 1), CloseOf(text, q) - (p + 1))
                          = SubSeq(text, q, CloseOf(text, q))
        /\ \A i \in 1..Len(stages_list) :
              extract_parallel(stages_list[i].content)
                = IF HasTok(stages_list[i].content, "kw", "parallel")
                  THEN StagesAtDepth(stages_list[i].content, 1) ELSE <<>>

\* two top-level stages were returned, the first with a stage nested two
\* parallel blocks deep
C27_Witness ==
    /\ pc = "returned"
    /\ input.kind = "body" /\ input.tail = <<>>
    /\ Len(stages_list) = 2
    /\ HeadersAtDepth(stages_list[1].content, 3) # {}
    /\ Len(extract_parallel(stages_list[1].content)) = 1

\* step runs the command text c of the stage body, or was made from it
Executes(step, c) ==
    \/ /\ step.name \in {"Run command", "Run Kubernetes command", "Run SonarQube analysis",
                         "Build Docker image", "Push Docker image"}
       /\ step.ref[1] = c
    \/ step.name = "Clone repository" /\ step.ref[2] = c

\* C28: no command is silently lost. Every shell command that
\* extract_steps_commands returns for a stage is executed by at least one step
\* of the written action; a command is left out of the generic "Run command"
\* steps only when a specialized step of the same action runs it or performs
\* its effect.
C28_NoCommandLost ==
    pc \in {"update", "post", "done"} =>
      \A i \in 1..Len(written) :
        LET cmds == Texts(extract_steps_commands(stages_info[i].body))
            steps == ActionOf(i).steps
        IN  \A c \in 1..Len(cmds) :
              /\ \E k \in 1..Len(steps) : Executes(steps[k], cmds[c])
              /\ (\A k \in 1..Len(steps) :
                     ~(steps[k].name = "Run command" /\ steps[k].ref[1] = cmds[c]))
                 => \E k \in 1..Len(steps) :
                       IsSpecialized(steps[k]) /\ SourceCommand(steps[k]) = cmds[c]

\* the elements of a sequence
Elements(s) == {s[i] : i \in 1..Len(s)}

\* the names an action declares as inputs, the names its steps are written
\* with, and the with blocks of the job steps that invoke it
DeclaredInputs(i) == {ActionOf(i).inputs[k].name : k \in 1..Len(ActionOf(i).inputs)}
ReferencedInputs(i) ==
    UNION {Elements(ActionOf(i).steps[k].inputs) : k \in 1..Len(ActionOf(i).steps)}
InvokingSteps(i) ==
    {s \in UNION {Elements(jobs[j].def.steps) : j \in 1..Len(jobs)} :
        s.kind = "uses" /\ s.ref = written[i].dir}

\* C29: declared inputs cover referenced inputs. Every inputs.<name> that a
\* step of a written action references is a key of that action's declared
\* inputs, and every declared input of the action is supplied by the with
\* block of the job step that invokes it.
C29_InputsCovered ==
    pc \in {"post", "done"} =>
      \A i \in 1..Len(written) :
        /\ ReferencedInputs(i) \subseteq DeclaredInputs(i)
        /\ \A s \in InvokingSteps(i) : DeclaredInputs(i) \subseteq Elements(s.with)

\* C30: stage environment does not leak to the workflow. Once the structure is
\* parsed, the workflow-level env holds exactly the key/value pairs of the
\* pipeline-level environment block and is empty (the workflow has no env)
\* when the pipeline has none; environment blocks inside stages add nothing
\* to it and change nothing in it.
C30_WorkflowEnv ==
    pc \notin {"start", "raised"} => workflow_env = DeclEnv(input.env)

====
